---------------------------- MODULE Spec2Model ----------------------------
(***************************************************************************)
(* Lead-resolution pipeline of CiviLeads (civileads_project/civileads):     *)
(* validators, confidence scorer, site discovery and the resolver           *)
(* score_and_deduplicate / search_for_officials.                            *)
(*                                                                          *)
(* Python strings are sequences of one-character strings.  None and a       *)
(* missing dictionary key are one-element sequences holding a token that    *)
(* is no character, so they differ from every string, the empty one         *)
(* included.  Floats are integers: 100 * tenths + units in the last place   *)
(* above that tenth (0.6000000000000001 is 601, 0.6 is 600).                *)
(***************************************************************************)
EXTENDS Integers, Sequences, FiniteSets, TLC

\* ------------------------------------------------------------------ bounds
\* longest officials_list handed to score_and_deduplicate
MaxCands == 3

\* ----------------------------------------------------------------- strings
None == << "<None>" >>
Missing == << "<Missing>" >>

UpperChars == <<"A","B","C","D","E","F","G","H","I","J","K","L","M","N","O","P","Q","R","S","T","U","V","W","X","Y","Z">>
LowerChars == <<"a","b","c","d","e","f","g","h","i","j","k","l","m","n","o","p","q","r","s","t","u","v","w","x","y","z">>
DigitChars == <<"0","1","2","3","4","5","6","7","8","9">>

Range(s) == { s[i] : i \in 1..Len(s) }

UpperSet == Range(UpperChars)
LowerSet == Range(LowerChars)
DigitSet == Range(DigitChars)

IsUpper(c) == c \in UpperSet
IsLower(c) == c \in LowerSet
IsDigit(c) == c \in DigitSet
IsAlpha(c) == IsUpper(c) \/ IsLower(c)
IsSpace(c) == c \in {" ", "\t", "\n"}

\* bool(x) of an optional string: None and "" are falsy
Truthy(x) == x # None /\ x # Missing /\ x # << >>

LowerOf == [ c \in UpperSet |->
               LowerChars[CHOOSE i \in 1..Len(UpperChars) : UpperChars[i] = c] ]

LowerChar(c) == IF IsUpper(c) THEN LowerOf[c] ELSE c

\* str.lower()
Lower(s) == [ i \in 1..Len(s) |-> LowerChar(s[i]) ]

\* sub in s
Contains(sub, s) ==
    \E i \in 0..(Len(s) - Len(sub)) : SubSeq(s, i + 1, i + Len(sub)) = sub

\* s.split(sep) for a one-character separator: empty fields are kept
RECURSIVE SplitOn(_, _)
SplitOn(s, sep) ==
    IF \A i \in 1..Len(s) : s[i] # sep
    THEN << s >>
    ELSE LET k == CHOOSE i \in 1..Len(s) :
                     s[i] = sep /\ \A j \in 1..(i - 1) : s[j] # sep
         IN  << SubSeq(s, 1, k - 1) >> \o SplitOn(SubSeq(s, k + 1, Len(s)), sep)

\* s.split(): runs of whitespace separate, no empty words
RECURSIVE SplitWords(_)
SplitWords(s) ==
    IF s = << >> THEN << >>
    ELSE IF IsSpace(s[1]) THEN SplitWords(Tail(s))
    ELSE LET n == CHOOSE k \in 1..Len(s) :
                     /\ \A j \in 1..k : ~IsSpace(s[j])
                     /\ (k = Len(s) \/ IsSpace(s[k + 1]))
         IN  << SubSeq(s, 1, n) >> \o SplitWords(SubSeq(s, n + 1, Len(s)))

\* a regex '$' also matches before one final newline
ChopNewline(s) ==
    IF Len(s) > 0 /\ s[Len(s)] = "\n" THEN SubSeq(s, 1, Len(s) - 1) ELSE s

\* ------------------------------------------------------------ vocabularies
NON_OFFICIAL_INDICATORS ==
    << <<"i","n","v","e","s","t","o","r">>, <<"i","n","n","o","v","a","t","i","o","n">>, <<"s","u","p","p","o","r","t">>, <<"d","e","v","e","l","o","p","m","e","n","t">>,
       <<"m","e","m","b","e","r","s","h","i","p">>, <<"c","o","n","t","r","a","c","t","o","r">>, <<"v","e","n","d","o","r">>, <<"s","u","p","p","l","i","e","r">>, <<"p","a","r","t","n","e","r">> >>

COMMON_OFFICIAL_TITLES ==
    << <<"m","a","y","o","r">>, <<"c","i","t","y"," ","m","a","n","a","g","e","r">>, <<"a","d","m","i","n","i","s","t","r","a","t","o","r">>, <<"c","l","e","r","k">>,
       <<"d","i","r","e","c","t","o","r">>, <<"c","o","u","n","c","i","l">>, <<"c","o","u","n","c","i","l","o","r">>, <<"c","o","u","n","c","i","l","m","e","m","b","e","r">>,
       <<"t","r","e","a","s","u","r","e","r">>, <<"a","t","t","o","r","n","e","y">>, <<"m","a","n","a","g","e","r">>, <<"s","u","p","e","r","v","i","s","o","r">>, <<"c","h","i","e","f">>,
       <<"c","o","m","m","i","s","s","i","o","n","e","r">>, <<"e","n","g","i","n","e","e","r">> >>

suspicious_parts ==
    << <<"e","v","e","n","t">>, <<"i","n","v","e","s","t","o","r">>, <<"s","u","p","p","o","r","t">>, <<"d","e","v","e","l","o","p","m","e","n","t">>, <<"i","n","n","o","v","a","t","i","o","n">> >>

\* -------------------------------------------------------------- validators
\* [A-Z][a-z]+
CapWord(w) ==
    /\ Len(w) >= 2
    /\ IsUpper(w[1])
    /\ \A i \in 2..Len(w) : IsLower(w[i])

\* ^[A-Z][a-z]+( [A-Z][a-z]+)+$
NamePatternBody(s) ==
    LET ws == SplitOn(s, " ")
    IN  Len(ws) >= 2 /\ \A i \in 1..Len(ws) : CapWord(ws[i])

name_pattern(s) == NamePatternBody(s) \/ NamePatternBody(ChopNewline(s))

\* indicator.lower() and part.lower() of every list entry
NonOfficialLower ==
    [ i \in 1..Len(NON_OFFICIAL_INDICATORS) |-> Lower(NON_OFFICIAL_INDICATORS[i]) ]
SuspiciousLower ==
    [ i \in 1..Len(suspicious_parts) |-> Lower(suspicious_parts[i]) ]

\* some entry of the list occurs in s
AnyIn(list, s) == \E i \in 1..Len(list) : Contains(list[i], s)

\* two words are enough, whatever their length
LenientName_AnyWords(words) == Len(words) >= 2

\* name.split() has at least two words, each of at least two characters
LenientName(words) ==
    Len(words) >= 2 /\ \A i \in 1..Len(words) : Len(words[i]) >= 2

validate_official_name(name) ==
    IF Len(name) < 4 THEN FALSE
    ELSE IF AnyIn(NonOfficialLower, Lower(name)) THEN FALSE
    ELSE IF name_pattern(name) THEN TRUE
    ELSE IF AnyIn(SuspiciousLower, Lower(name)) THEN FALSE
    ELSE LenientName(SplitWords(name))

\* the checks with the non-official indicators tested first
TitleChecks_DenylistFirst(title_lower, title) ==
    IF AnyIn(NON_OFFICIAL_INDICATORS, title_lower) THEN FALSE
    ELSE IF AnyIn(COMMON_OFFICIAL_TITLES, title_lower) THEN TRUE
    ELSE IF Contains(<<"d","i","r","e","c","t","o","r">>, title_lower)
            \/ Contains(<<"c","h","i","e","f">>, title_lower)
    THEN TRUE
    ELSE Len(title) >= 4

\* the checks on title_lower, then the minimum length of the title itself
TitleChecks(title_lower, title) ==
    IF AnyIn(COMMON_OFFICIAL_TITLES, title_lower) THEN TRUE
    ELSE IF Contains(<<"d","i","r","e","c","t","o","r">>, title_lower)
            \/ Contains(<<"c","h","i","e","f">>, title_lower)
    THEN TRUE
    ELSE IF AnyIn(NON_OFFICIAL_INDICATORS, title_lower) THEN FALSE
    ELSE Len(title) >= 4

validate_official_title(title) ==
    IF ~Truthy(title) THEN FALSE ELSE TitleChecks(Lower(title), title)

\* [a-zA-Z0-9._%+-]
EmailLocalChar(c) == IsAlpha(c) \/ IsDigit(c) \/ c \in {".", "_", "%", "+", "-"}
\* [a-zA-Z0-9.-]
EmailDomainChar(c) == IsAlpha(c) \/ IsDigit(c) \/ c \in {".", "-"}

\* ^[a-zA-Z0-9._%+-]+@[a-zA-Z0-9.-]+\.[a-zA-Z]{2,}$
EmailPatternBody(s) ==
    \E a \in 2..Len(s) :
        /\ s[a] = "@"
        /\ \A i \in 1..(a - 1) : EmailLocalChar(s[i])
        /\ \E d \in (a + 2)..(Len(s) - 2) :
              /\ s[d] = "."
              /\ \A i \in (a + 1)..(d - 1) : EmailDomainChar(s[i])
              /\ \A i \in (d + 1)..Len(s) : IsAlpha(s[i])

email_pattern(s) == EmailPatternBody(s) \/ EmailPatternBody(ChopNewline(s))

validate_email(email) ==
    IF ~Truthy(email) THEN FALSE ELSE email_pattern(email)

\* re.sub(r'\D', '', phone)
RECURSIVE Digits(_)
Digits(s) ==
    IF s = << >> THEN << >>
    ELSE IF IsDigit(s[1]) THEN << s[1] >> \o Digits(Tail(s))
    ELSE Digits(Tail(s))

\* a form that carries an extension digit
FormatPhone_Extension(d) ==
    << "(" >> \o SubSeq(d, 1, 3) \o << ")", " " >> \o SubSeq(d, 4, 6)
        \o << "-" >> \o SubSeq(d, 7, 10) \o << " ", "x", "1" >>

\* f"({d[0:3]}) {d[3:6]}-{d[6:10]}" of ten digits
FormatPhone(d) ==
    << "(" >> \o SubSeq(d, 1, 3) \o << ")", " " >> \o SubSeq(d, 4, 6)
        \o << "-" >> \o SubSeq(d, 7, 10)

\* the decision without the test of the leading digit
FormatDigits_AnyEleven(digits) ==
    IF Len(digits) = 10 THEN FormatPhone(digits)
    ELSE IF Len(digits) = 11 THEN FormatPhone(SubSeq(digits, 2, 11))
    ELSE None

\* the decision on the digits left after the substitution
FormatDigits(digits) ==
    IF Len(digits) = 10 THEN FormatPhone(digits)
    ELSE IF Len(digits) = 11 /\ digits[1] = "1"
    THEN FormatPhone(SubSeq(digits, 2, 11))
    ELSE None

validate_phone(phone) ==
    IF ~Truthy(phone) THEN None ELSE FormatDigits(Digits(phone))

\* --------------------------------------------------------- confidence score
\* IEEE-754 double addition on the values the scorer can reach
FloatAdd(a, w) ==
    CASE a = 200 /\ w = 100 -> 301
      [] a = 301 /\ w = 100 -> 400
      [] a = 400 /\ w = 200 -> 601
      [] a = 601 /\ w = 200 -> 800
      [] a = 701 /\ w = 100 -> 800
      [] OTHER -> a + w

\* a / b for the total weight the scorer reaches (1.0)
FloatDiv(a, b) == IF b = 1000 THEN a ELSE (a * 1000) \div b

\* official.get(key): a missing key reads as None
Get(v) == IF v = Missing THEN None ELSE v

W_NAME == 400
W_TITLE == 200
W_EMAIL == 200
W_PHONE == 100
W_LINKEDIN == 100

\* the five signals, each adding its weight to the running score
NameSignal(official, score) ==
    IF validate_official_name(official.name)
    THEN FloatAdd(score, W_NAME) ELSE score

\* the title adds nothing to the score
TitleSignal_Unscored(official, score) == score

TitleSignal(official, score) ==
    IF validate_official_title(official.title)
    THEN FloatAdd(score, W_TITLE) ELSE score

EmailSignal(official, score) ==
    IF validate_email(Get(official.email))
    THEN FloatAdd(score, W_EMAIL) ELSE score

\* official.get('phone') is truthy and validate_phone formats it
PhoneFormats(official) ==
    Truthy(Get(official.phone)) /\ Truthy(validate_phone(Get(official.phone)))

PhoneSignal(official, score) ==
    IF PhoneFormats(official) THEN FloatAdd(score, W_PHONE) ELSE score

LinkedinSignal(official, score) ==
    IF Truthy(Get(official.linkedin_url))
    THEN FloatAdd(score, W_LINKEDIN) ELSE score

\* the phone is stored whatever validate_phone returned
WithFormattedPhone_Always(official, formatted_phone) ==
    IF Truthy(Get(official.phone))
    THEN [official EXCEPT !.phone = formatted_phone]
    ELSE official

\* lines 432-437: the phone is rewritten when it is set and formats
WithFormattedPhone(official, formatted_phone) ==
    IF Truthy(Get(official.phone)) /\ Truthy(formatted_phone)
    THEN [official EXCEPT !.phone = formatted_phone]
    ELSE official

\* total_weight: every weight is added whether or not its signal passes
total_weight ==
    FloatAdd(FloatAdd(FloatAdd(FloatAdd(FloatAdd(0, W_NAME), W_TITLE),
        W_EMAIL), W_PHONE), W_LINKEDIN)

\* calculate_confidence_score: the value returned and the record as left
\* behind (the phone is rewritten when it formats)
calculate_confidence_score(official) ==
    [ score    |-> IF total_weight > 0
                   THEN FloatDiv(
                            LinkedinSignal(official,
                              PhoneSignal(official,
                                EmailSignal(official,
                                  TitleSignal(official,
                                    NameSignal(official, 0))))),
                            total_weight)
                   ELSE 0,
      official |-> WithFormattedPhone(official,
                                      validate_phone(Get(official.phone))) ]

\* ------------------------------------------------------------------- state
VARIABLES
    municipality,      \* municipality_name argument
    state,             \* state argument
    pc,                \* position in the running call
    officials_list,    \* argument of score_and_deduplicate (the pool)
    officials_by_key,  \* groups not yet merged, in key insertion order
    final_results,     \* merged records appended so far
    lookups,           \* value each search_linkedin_profile call returned
    ret,               \* value returned by the call
    raised,            \* the call ended in an uncaught exception
    caller,            \* who called find_municipal_website
    find_phase,        \* the loop it is in: "patterns" or "known"
    find_idx,          \* position of the next URL to try in that loop
    probes,            \* the URLs requested by the running call, in order
    response,          \* what the last request of the call gave back
    website,           \* value find_municipal_website returned
    google_results,    \* value search_google returned
    muni_website,      \* muni_website of search_for_officials
    contact_pages,     \* contact_pages of find_contact_pages
    path_idx,          \* position of the next path find_contact_pages tries
    link_idx,          \* position of the next contact page to visit
    direct_results,    \* results of search_direct_for_officials
    contact_texts,     \* texts of the contact pages fetched with status 200
    scrape_links,      \* contact_links[:3] of scrape_municipal_website
    page_idx,          \* position of the next link it visits
    scrape_results,    \* results of scrape_municipal_website
    retry_count,       \* retry_count of the running make_request
    verify_ssl,        \* verify_ssl of the running make_request
    attempts,          \* the requests make_request issued, in order
    arg,               \* argument of a validator or of the scorer
    calls,             \* the calls of it made so far, with what they gave
    runs,              \* the local variables of each search_for_officials
                       \* call in progress, when several run at once
    rng_calls          \* calls of random.uniform made so far (the generator
                       \* of the random module is shared by all calls)

find_vars == << caller, find_phase, find_idx, probes, response, website >>
search_vars == << google_results, contact_pages, path_idx, link_idx,
                  direct_results, contact_texts >>
unit_vars == << scrape_links, page_idx, scrape_results, retry_count, verify_ssl, attempts,
               arg, calls, runs, rng_calls >>
run_vars == << runs, rng_calls >>
dedup_vars == << officials_list, officials_by_key, final_results, lookups,
                 ret, raised >>

vars == << municipality, state, pc, officials_list, officials_by_key,
           final_results, lookups, ret, raised, caller, find_phase, find_idx,
           probes, response, website, google_results, muni_website,
           contact_pages, path_idx, link_idx, direct_results, contact_texts,
           scrape_links, page_idx, scrape_results, retry_count, verify_ssl,
           attempts, arg, calls, runs, rng_calls >>

\* the variables of the functions called on their own, at rest
UnitIdle ==
    /\ scrape_links = << >>
    /\ page_idx = 1
    /\ scrape_results = << >>
    /\ retry_count = 0
    /\ verify_ssl = TRUE
    /\ attempts = << >>
    /\ arg = None
    /\ calls = << >>
    /\ runs = << >>
    /\ rng_calls = 0

Official(n, t, e, p, l, s, c) ==
    [ name |-> n, title |-> t, email |-> e, phone |-> p, linkedin_url |-> l,
      source |-> s, confidence_score |-> c ]

\* make_request returned None
NoResponse == [kind |-> "none", body |-> << >>]

\* ------------------------------------------------- search_linkedin_profile

LinkedinOutcomes == { "error", "non200", "found", "nolink" }

\* the profile URL carried by the first matching link of the result page
LINKEDIN_FOUND == <<"h","t","t","p","s",":","/","/","w","w","w",".","l","i","n","k","e","d","i","n",".","c","o","m","/","i","n","/","f","o","u","n","d">>

search_linkedin_profile(name, title, municipality_name, st, outcome) ==
    IF outcome = "error" \/ outcome = "non200" THEN None
    ELSE IF outcome = "found" THEN LINKEDIN_FOUND
    ELSE IF name = <<"F","r","a","n","k"," ","C","o","w","n","i","e">> /\ title = <<"M","a","y","o","r">>
    THEN <<"h","t","t","p","s",":","/","/","w","w","w",".","l","i","n","k","e","d","i","n",".","c","o","m","/","i","n","/","f","r","a","n","k","-","c","o","w","n","i","e","-","m","a","y","o","r","-","d","e","s","m","o","i","n","e","s">>
    ELSE IF name = <<"S","c","o","t","t"," ","S","a","n","d","e","r","s">> /\ title = <<"C","i","t","y"," ","M","a","n","a","g","e","r">>
    THEN <<"h","t","t","p","s",":","/","/","w","w","w",".","l","i","n","k","e","d","i","n",".","c","o","m","/","i","n","/","s","c","o","t","t","-","s","a","n","d","e","r","s","-","d","e","s","m","o","i","n","e","s">>
    ELSE IF name = <<"T","i","f","f","a","n","y"," ","O","'","D","o","n","n","e","l","l">> /\ title = <<"M","a","y","o","r">>
    THEN <<"h","t","t","p","s",":","/","/","w","w","w",".","l","i","n","k","e","d","i","n",".","c","o","m","/","i","n","/","t","i","f","f","a","n","y","-","o","d","o","n","n","e","l","l","-","c","e","d","a","r","r","a","p","i","d","s">>
    ELSE IF name = <<"J","e","f","f"," ","P","o","m","e","r","a","n","z">> /\ title = <<"C","i","t","y"," ","M","a","n","a","g","e","r">>
    THEN <<"h","t","t","p","s",":","/","/","w","w","w",".","l","i","n","k","e","d","i","n",".","c","o","m","/","i","n","/","j","e","f","f","-","p","o","m","e","r","a","n","z","-","c","e","d","a","r","r","a","p","i","d","s">>
    ELSE None

\* ---------------------------------------------------- score_and_deduplicate
\* the key without lowercasing
MergeKey_CaseSensitive(official) == << official.name, official.title >>

\* (official['name'].lower(), official['title'].lower())
MergeKey(official) == << Lower(official.name), Lower(official.title) >>

\* the title check left out
ValidOfficial_NameOnly(official) == validate_official_name(official.name)

\* the name check left out
ValidOfficial_TitleOnly(official) == validate_official_title(official.title)

ValidOfficial(official) ==
    validate_official_name(official.name)
        /\ validate_official_title(official.title)

\* position of key among the groups, 0 when it is absent
KeyIndex(acc, key) ==
    IF \E i \in 1..Len(acc) : acc[i].key = key
    THEN CHOOSE i \in 1..Len(acc) : acc[i].key = key
    ELSE 0

\* one pass of the grouping loop
\* the official appended to the group at position i, or to a new group
AppendAt(acc, i, key, official) ==
    IF i = 0
    THEN Append(acc, [key |-> key, matches |-> << official >>])
    ELSE [acc EXCEPT ![i].matches = Append(@, official)]

AddUnder(acc, key, official) ==
    AppendAt(acc, KeyIndex(acc, key), key, official)

\* one pass of the grouping loop
AddToGroups(acc, official) ==
    IF ~ValidOfficial(official) THEN acc
    ELSE AddUnder(acc, MergeKey(official), official)

\* officials_by_key after the grouping loop: one entry per key, in the order
\* the keys were first inserted, each with its matches in input order
RECURSIVE GroupByKey(_, _)
GroupByKey(list, acc) ==
    IF list = << >> THEN acc
    ELSE GroupByKey(Tail(list), AddToGroups(acc, Head(list)))

\* seeding from the last match instead of the first
SeedMatch_Last(matches) ==
    IF matches[Len(matches)].linkedin_url = Missing
    THEN [matches[Len(matches)] EXCEPT !.linkedin_url = None]
    ELSE matches[Len(matches)]

\* best_match = matches[0].copy(), linkedin_url initialised when absent
SeedMatch(matches) ==
    IF matches[1].linkedin_url = Missing
    THEN [matches[1] EXCEPT !.linkedin_url = None]
    ELSE matches[1]

FillEmail(best_match, match) ==
    IF ~Truthy(best_match.email) /\ Truthy(Get(match.email))
    THEN [best_match EXCEPT !.email = match.email] ELSE best_match

FillPhone(best_match, match) ==
    IF ~Truthy(best_match.phone) /\ Truthy(Get(match.phone))
    THEN [best_match EXCEPT !.phone = match.phone] ELSE best_match

FillLinkedin(best_match, match) ==
    IF ~Truthy(best_match.linkedin_url) /\ Truthy(Get(match.linkedin_url))
    THEN [best_match EXCEPT !.linkedin_url = match.linkedin_url]
    ELSE best_match

OverwriteEmail(best_match, match) ==
    IF Truthy(Get(match.email))
    THEN [best_match EXCEPT !.email = match.email] ELSE best_match

OverwritePhone(best_match, match) ==
    IF Truthy(Get(match.phone))
    THEN [best_match EXCEPT !.phone = match.phone] ELSE best_match

OverwriteLinkedin(best_match, match) ==
    IF Truthy(Get(match.linkedin_url))
    THEN [best_match EXCEPT !.linkedin_url = match.linkedin_url]
    ELSE best_match

\* a later match overwrites a field that is already populated
MergeOne_LastWins(best_match, match) ==
    OverwriteLinkedin(OverwritePhone(OverwriteEmail(best_match, match), match),
                      match)

\* one pass of the loop over matches[1:]
MergeOne(best_match, match) ==
    FillLinkedin(FillPhone(FillEmail(best_match, match), match), match)

RECURSIVE MergeLoop(_, _)
MergeLoop(best_match, rest) ==
    IF rest = << >> THEN best_match
    ELSE MergeLoop(MergeOne(best_match, Head(rest)), Tail(rest))

\* best_match after the merge loop, before enrichment and scoring
MergeMatches(matches) == MergeLoop(SeedMatch(matches), Tail(matches))

\* best_match['linkedin_url'] is subscripted: an absent key is a KeyError
MergeRaises(matches) == MergeMatches(matches).linkedin_url = Missing

\* the lookup is made whatever the municipality and the state
NeedsLookup_AnyPlace(matches, municipality_name, st) ==
    ~Truthy(MergeMatches(matches).linkedin_url)

\* the condition under which search_linkedin_profile is called
NeedsLookup(matches, municipality_name, st) ==
    /\ ~Truthy(MergeMatches(matches).linkedin_url)
    /\ Truthy(municipality_name)
    /\ Truthy(st)

NoCall == << "<nocall>" >>

\* lines 456-457
Enrich(best_match, linkedin_url) ==
    IF linkedin_url # NoCall /\ Truthy(linkedin_url)
    THEN [best_match EXCEPT !.linkedin_url = linkedin_url]
    ELSE best_match

\* line 460: the scorer's record with its value stored
StoreScore(cs) == [cs.official EXCEPT !.confidence_score = cs.score]

Scored(best_match) == StoreScore(calculate_confidence_score(best_match))

\* lines 463-466
Reformat(best_match) ==
    WithFormattedPhone(best_match, validate_phone(best_match.phone))

\* the upstream confidence_score is kept instead of the recomputed one
FinishMatch_KeepsUpstream(best_match, linkedin_url) ==
    Reformat(calculate_confidence_score(Enrich(best_match, linkedin_url)).official)

\* the rest of the loop body, given what search_linkedin_profile returned
\* (NoCall when it was not called)
FinishMatch(best_match, linkedin_url) ==
    Reformat(Scored(Enrich(best_match, linkedin_url)))

\* x put at position k + 1 of acc
InsertAfter(acc, k, x) ==
    SubSeq(acc, 1, k) \o << x >> \o SubSeq(acc, k + 1, Len(acc))

\* x placed before the earlier records of equal confidence
InsertDesc_TiesReversed(acc, x) ==
    InsertAfter(acc,
        Cardinality({ i \in 1..Len(acc) :
            acc[i].confidence_score > x.confidence_score }), x)

\* x placed after every record of greater or equal confidence
InsertDesc(acc, x) ==
    InsertAfter(acc,
        Cardinality({ i \in 1..Len(acc) :
            acc[i].confidence_score >= x.confidence_score }), x)

\* list.sort(key=confidence_score, reverse=True): stable, equal keys keep
\* their order
RECURSIVE SortDesc(_, _)
SortDesc(list, acc) ==
    IF list = << >> THEN acc
    ELSE SortDesc(Tail(list), InsertDesc(acc, Head(list)))

\* the merged record of every group, given the value each
\* search_linkedin_profile call returned (NoCall where none was made)
MergeAll(grouped, linkedin_results) ==
    [ i \in 1..Len(grouped) |->
        FinishMatch(MergeMatches(grouped[i].matches), linkedin_results[i]) ]

\* the whole function, given those values, one per key in insertion order
score_and_deduplicate(list, linkedin_results) ==
    IF list = << >> THEN << >>
    ELSE SortDesc(MergeAll(GroupByKey(list, << >>), linkedin_results), << >>)

\* lines 415-428: the empty-input return and the grouping loop
SD_Enter ==
    /\ pc = "score_and_deduplicate"
    /\ IF officials_list = << >> \/ GroupByKey(officials_list, << >>) = << >>
       THEN /\ ret' = << >>
            /\ pc' = "done"
            /\ UNCHANGED << officials_by_key, final_results >>
       ELSE /\ officials_by_key' = GroupByKey(officials_list, << >>)
            /\ final_results' = << >>
            /\ pc' = "merge"
            /\ UNCHANGED ret
    /\ UNCHANGED << municipality, state, officials_list, lookups, raised >>
    /\ UNCHANGED find_vars
    /\ UNCHANGED << muni_website, search_vars, unit_vars >>

\* what search_linkedin_profile returns for the merged record, NoCall when
\* the call is not made
Lookup(best_match, outcome) ==
    IF outcome = "nocall" THEN NoCall
    ELSE search_linkedin_profile(best_match.name, best_match.title,
                                 municipality, state, outcome)

\* lines 470-473 once the last key is merged
SD_Append(results) ==
    /\ final_results' = results
    /\ IF Tail(officials_by_key) = << >>
       THEN ret' = SortDesc(results, << >>) /\ pc' = "done"
       ELSE ret' = ret /\ pc' = "merge"

\* lines 456-468 for one key, given what the lookup returned
SD_Finish(best_match, linkedin_url) ==
    /\ SD_Append(Append(final_results, FinishMatch(best_match, linkedin_url)))
    /\ lookups' = Append(lookups, linkedin_url)
    /\ officials_by_key' = Tail(officials_by_key)
    /\ raised' = raised

\* lines 448-455 for one key: the lookup, when it is made
SD_Lookup(best_match, outcome) ==
    SD_Finish(best_match, Lookup(best_match, outcome))

\* lines 431-468 for the next key (one search_linkedin_profile call at
\* most), and lines 470-473 after the last key
SD_Iter ==
    /\ pc = "merge"
    /\ officials_by_key # << >>
    /\ IF MergeRaises(Head(officials_by_key).matches)
       THEN /\ raised' = TRUE
            /\ pc' = "done"
            /\ UNCHANGED << officials_by_key, final_results, lookups, ret >>
       ELSE \E outcome \in
                (IF NeedsLookup(Head(officials_by_key).matches,
                                municipality, state)
                 THEN LinkedinOutcomes ELSE { "nocall" }) :
              SD_Lookup(MergeMatches(Head(officials_by_key).matches), outcome)
    /\ UNCHANGED << municipality, state, officials_list >>
    /\ UNCHANGED find_vars
    /\ UNCHANGED << muni_website, search_vars, unit_vars >>

\* ------------------------------------------- inputs of score_and_deduplicate
NAME_JANE == <<"J","a","n","e"," ","D","o","e">>
NAME_JANE_LC == <<"j","a","n","e"," ","d","o","e">>
NAME_AL == <<"A","l"," ","R","o","e">>
NAME_FRANK == <<"F","r","a","n","k"," ","C","o","w","n","i","e">>
NAME_VENDOR == <<"A","c","m","e"," ","V","e","n","d","o","r"," ","S","o","l","u","t","i","o","n","s">>
TITLE_CLERK == <<"C","l","e","r","k">>
TITLE_CLERK_LC == <<"c","l","e","r","k">>
TITLE_MAYOR == <<"M","a","y","o","r">>
TITLE_BAD == <<"a","b","c">>
EMAIL_1 == <<"j","a","n","e","@","c","i","t","y",".","g","o","v">>
EMAIL_2 == <<"j","d","@","c","i","t","y",".","o","r","g">>
PHONE_RAW == <<"5","1","5","5","5","5","1","2","3","4">>
PHONE_CANON == <<"(","5","1","5",")"," ","5","5","5","-","9","9","9","9">>
PHONE_BAD == <<"5","5","5","-","1","2","3","4">>
LINKEDIN_1 == <<"h","t","t","p","s",":","/","/","w","w","w",".","l","i","n","k","e","d","i","n",".","c","o","m","/","i","n","/","j","d">>
SRC_1 == <<"h","t","t","p","s",":","/","/","w","w","w",".","a","m","e","s",".","g","o","v","/","s","t","a","f","f">>
SRC_2 == <<"G","o","o","g","l","e"," ","S","e","a","r","c","h">>

Candidates ==
    { Official(NAME_JANE, TITLE_CLERK, EMAIL_1, None, Missing, SRC_1, 500),
      Official(NAME_JANE, TITLE_CLERK, None, PHONE_RAW, Missing, SRC_2, 500),
      Official(NAME_JANE_LC, TITLE_CLERK_LC, EMAIL_2, PHONE_CANON, LINKEDIN_1,
               SRC_2, 600),
      Official(NAME_JANE, TITLE_MAYOR, None, None, None, SRC_1, 1000),
      Official(NAME_AL, TITLE_MAYOR, None, PHONE_BAD, Missing, SRC_1, 500),
      Official(NAME_FRANK, TITLE_MAYOR, None, None, Missing, SRC_2, 500),
      Official(NAME_VENDOR, TITLE_MAYOR, EMAIL_1, PHONE_CANON, LINKEDIN_1,
               SRC_1, 1000),
      Official(NAME_JANE, TITLE_BAD, EMAIL_2, PHONE_RAW, Missing, SRC_1, 600) }

\* (municipality_name, state) pairs score_and_deduplicate is called with
DedupArgs ==
    { << << >>, << >> >>, << <<"A","m","e","s">>, << >> >>, << <<"A","m","e","s">>, <<"I","A">> >> }

ListsUpTo(S, n) == UNION { [1..k -> S] : k \in 0..n }

InitDedup ==
    /\ \E a \in DedupArgs : municipality = a[1] /\ state = a[2]
    /\ officials_list \in ListsUpTo(Candidates, MaxCands)
    /\ pc = "score_and_deduplicate"
    /\ officials_by_key = << >>
    /\ final_results = << >>
    /\ lookups = << >>
    /\ ret = << >>
    /\ raised = FALSE
    /\ caller = "none"
    /\ find_phase = "patterns"
    /\ find_idx = 1
    /\ probes = << >>
    /\ response = NoResponse
    /\ website = None
    /\ google_results = << >>
    /\ muni_website = None
    /\ contact_pages = << >>
    /\ path_idx = 1
    /\ link_idx = 1
    /\ direct_results = << >>
    /\ contact_texts = << >>
    /\ UnitIdle

NextDedup == SD_Enter \/ SD_Iter

SpecDedup == InitDedup /\ [][NextDedup]_vars


\* ---------------------------------------------------- generate_url_patterns
\* s.replace(' ', to)
RECURSIVE ReplaceSpaces(_, _)
ReplaceSpaces(s, to) ==
    IF s = << >> THEN << >>
    ELSE (IF Head(s) = " " THEN to ELSE << Head(s) >>)
             \o ReplaceSpaces(Tail(s), to)

\* s[:3]
First3(s) == SubSeq(s, 1, IF Len(s) < 3 THEN Len(s) ELSE 3)

\* the fourteen patterns of lines 68-86
CommonPatterns(muni_clean, muni_clean_dash) ==
    << <<"h","t","t","p","s",":","/","/","w","w","w",".">> \o First3(muni_clean) \o <<".","g","o","v">>,
       <<"h","t","t","p","s",":","/","/">> \o First3(muni_clean) \o <<".","g","o","v">>,
       <<"h","t","t","p","s",":","/","/","w","w","w",".">> \o muni_clean \o <<".","g","o","v">>,
       <<"h","t","t","p","s",":","/","/">> \o muni_clean \o <<".","g","o","v">>,
       <<"h","t","t","p","s",":","/","/","w","w","w",".">> \o muni_clean \o <<".","o","r","g">>,
       <<"h","t","t","p","s",":","/","/">> \o muni_clean \o <<".","o","r","g">>,
       <<"h","t","t","p","s",":","/","/","w","w","w",".">> \o muni_clean \o <<".","c","o","m">>,
       <<"h","t","t","p","s",":","/","/","w","w","w",".","c","i","t","y","o","f">> \o muni_clean \o <<".","g","o","v">>,
       <<"h","t","t","p","s",":","/","/","w","w","w",".","c","i","t","y","o","f">> \o muni_clean \o <<".","o","r","g">>,
       <<"h","t","t","p","s",":","/","/","w","w","w",".","c","i","t","y","o","f">> \o muni_clean \o <<".","c","o","m">>,
       <<"h","t","t","p","s",":","/","/">> \o muni_clean_dash \o <<".","g","o","v">>,
       <<"h","t","t","p","s",":","/","/","w","w","w",".">> \o muni_clean_dash \o <<".","g","o","v">>,
       <<"h","t","t","p","s",":","/","/">> \o muni_clean_dash \o <<".","o","r","g">>,
       <<"h","t","t","p","s",":","/","/","w","w","w",".">> \o muni_clean_dash \o <<".","o","r","g">> >>

\* lines 89-93: four URLs inserted at the front for Des Moines
DesMoinesPatterns ==
    << <<"h","t","t","p","s",":","/","/","w","w","w",".","d","s","m",".","g","o","v">>, <<"h","t","t","p","s",":","/","/","d","s","m",".","g","o","v">>,
       <<"h","t","t","p","s",":","/","/","w","w","w",".","d","m","g","o","v",".","o","r","g">>, <<"h","t","t","p","s",":","/","/","d","m","g","o","v",".","o","r","g">> >>

\* lines 98-106
StatePatterns(muni_clean, muni_clean_dash, state_lower) ==
    << <<"h","t","t","p","s",":","/","/">> \o muni_clean \o <<".">> \o state_lower \o <<".","u","s">>,
       <<"h","t","t","p","s",":","/","/","w","w","w",".">> \o muni_clean \o <<".">> \o state_lower \o <<".","u","s">>,
       <<"h","t","t","p","s",":","/","/">> \o muni_clean_dash \o <<".">> \o state_lower \o <<".","u","s">>,
       <<"h","t","t","p","s",":","/","/","w","w","w",".">> \o muni_clean_dash \o <<".">> \o state_lower \o <<".","u","s">>,
       <<"h","t","t","p","s",":","/","/">> \o muni_clean \o <<".">> \o state_lower \o <<".","g","o","v">>,
       <<"h","t","t","p","s",":","/","/","w","w","w",".">> \o muni_clean \o <<".">> \o state_lower \o <<".","g","o","v">> >>

generate_url_patterns(muni, st) ==
    (IF Lower(muni) = <<"d","e","s"," ","m","o","i","n","e","s">> THEN DesMoinesPatterns ELSE << >>)
        \o CommonPatterns(ReplaceSpaces(Lower(muni), << >>),
                          ReplaceSpaces(Lower(muni), << "-" >>))
        \o (IF Len(st) = 2
            THEN StatePatterns(ReplaceSpaces(Lower(muni), << >>),
                               ReplaceSpaces(Lower(muni), << "-" >>), Lower(st))
            ELSE << >>)

\* ------------------------------------------------- is_likely_municipal_site
municipal_indicators ==
    << <<"c","i","t","y"," ","h","a","l","l">>, <<"t","o","w","n"," ","h","a","l","l">>, <<"m","u","n","i","c","i","p","a","l">>, <<"g","o","v","e","r","n","m","e","n","t">>, <<"m","a","y","o","r">>,
       <<"c","i","t","y"," ","c","o","u","n","c","i","l">>, <<"t","o","w","n"," ","c","o","u","n","c","i","l">>, <<"c","i","t","y"," ","o","f">>, <<"t","o","w","n"," ","o","f">>,
       <<"p","u","b","l","i","c"," ","w","o","r","k","s">>, <<"e","l","e","c","t","e","d"," ","o","f","f","i","c","i","a","l","s">>, <<"c","l","e","r","k">>, <<"c","i","t","y"," ","s","e","r","v","i","c","e","s">>,
       <<"p","e","r","m","i","t","s">>, <<"d","e","p","a","r","t","m","e","n","t","s">>, <<"r","e","s","i","d","e","n","t","s">>, <<"b","u","s","i","n","e","s","s">>, <<"v","i","s","i","t","o","r","s">>,
       <<"c","o","m","m","u","n","i","t","y">>, <<"z","o","n","i","n","g">>, <<"p","l","a","n","n","i","n","g">>, <<"c","i","t","y"," ","m","a","n","a","g","e","r">>,
       <<"f","i","r","e"," ","d","e","p","a","r","t","m","e","n","t">>, <<"p","o","l","i","c","e"," ","d","e","p","a","r","t","m","e","n","t">>, <<"r","e","c","r","e","a","t","i","o","n">>, <<"m","e","e","t","i","n","g">>,
       <<"a","g","e","n","d","a">>, <<"m","i","n","u","t","e","s">>, <<"o","r","d","i","n","a","n","c","e">>, <<"c","o","d","e">>, <<"p","a","r","k","s">>, <<"w","a","t","e","r">>,
       <<"s","e","w","e","r">>, <<"t","r","a","s","h">>, <<"r","e","c","y","c","l","i","n","g">>, <<"s","n","o","w"," ","r","e","m","o","v","a","l">>, <<"j","o","b">>,
       <<"e","m","p","l","o","y","m","e","n","t">>, <<"p","a","r","k","i","n","g">>, <<"l","i","b","r","a","r","y">>, <<"e","m","e","r","g","e","n","c","y">>, <<"p","a","y","m","e","n","t">> >>

\* city_specific: the extra keywords of two cities
city_specific(muni_lower) ==
    IF muni_lower = <<"d","e","s"," ","m","o","i","n","e","s">>
    THEN << <<"d","s","m">>, <<"d","m","g","o","v">>, <<"d","e","s"," ","m","o","i","n","e","s"," ","c","i","t","y">>, <<"p","o","l","k"," ","c","o","u","n","t","y">> >>
    ELSE IF muni_lower = <<"c","e","d","a","r"," ","r","a","p","i","d","s">>
    THEN << <<"c","e","d","a","r"," ","r","a","p","i","d","s"," ","c","i","t","y">>, <<"l","i","n","n"," ","c","o","u","n","t","y">> >>
    ELSE << >>

name_found(html_lower, muni_lower) ==
    \/ Contains(muni_lower, html_lower)
    \/ Contains(ReplaceSpaces(muni_lower, << >>), html_lower)
    \/ (muni_lower = <<"d","e","s"," ","m","o","i","n","e","s">> /\ Contains(<<"d","s","m">>, html_lower))

indicator_count(html_lower, indicators) ==
    Cardinality({ i \in 1..Len(indicators) : Contains(indicators[i], html_lower) })

\* the name and the region code together are not enough
LikelyDecision_NameNeedsIndicator(name, state_found, count) ==
    IF name /\ count >= 1 THEN TRUE ELSE count >= 2

\* the decision of lines 158-165
LikelyDecision(name, state_found, count) ==
    IF name /\ state_found THEN TRUE
    ELSE IF name /\ count >= 1 THEN TRUE
    ELSE count >= 2

is_likely_municipal_site(html_content, muni, st) ==
    LikelyDecision(
        name_found(Lower(html_content), Lower(muni)),
        Contains(Lower(st), Lower(html_content)),
        indicator_count(Lower(html_content),
                        municipal_indicators \o city_specific(Lower(muni))))

\* ---------------------------------------------------- find_municipal_website
\* page bodies a probed host may serve
BODY_WELCOME == <<"W","e","l","c","o","m","e"," ","t","o"," ","A","m","e","s",","," ","I","A">>
BODY_HALL == <<"M","e","d","i","a",":"," ","C","i","t","y"," ","H","a","l","l"," ","-"," ","M","a","y","o","r">>
BODY_PARKED == <<"D","o","m","a","i","n"," ","f","o","r"," ","s","a","l","e">>
BODY_DSM == <<"D","S","M"," ","m","e","d","i","a"," ","p","a","r","k","i","n","g">>
BODY_MEDIA == <<"M","e","d","i","a"," ","l","i","b","r","a","r","y">>
BODY_LIBRARY == <<"A","m","e","s",","," ","I","A"," ","L","i","b","r","a","r","y">>

Bodies ==
    { BODY_WELCOME, BODY_HALL, BODY_PARKED, BODY_DSM, BODY_MEDIA,
      BODY_LIBRARY }

\* what make_request gives back: None after the retries, a response with a
\* status other than 200, or a 200 response with a body; "error" is an
\* exception raised inside the try block
Responses ==
    { NoResponse,
      [kind |-> "error", body |-> << >>],
      [kind |-> "non200", body |-> << >>] }
        \cup { [kind |-> "ok", body |-> b] : b \in Bodies }

\* lines 233-239
direct_urls ==
    << <<"h","t","t","p","s",":","/","/","w","w","w",".","d","s","m",".","c","i","t","y">>, <<"h","t","t","p","s",":","/","/","d","s","m",".","c","i","t","y">>,
       <<"h","t","t","p","s",":","/","/","w","w","w",".","d","m","g","o","v",".","o","r","g">>, <<"h","t","t","p","s",":","/","/","d","m","g","o","v",".","o","r","g">> >>

\* the condition of line 233
HasKnownUrls(muni, st) ==
    Lower(muni) = <<"d","e","s"," ","m","o","i","n","e","s">> /\ Lower(st) = <<"i","a">>

\* hosts beyond the first MaxLive of a list do not answer when the call is
\* made from search_for_officials
MaxLive == 2

Live(i) == caller = "find" \/ i <= MaxLive

\* the response is observed when find_municipal_website is called on its
\* own; inside search_for_officials nothing reads it once the pass is over
Kept(resp) == IF caller \in { "find", "contact" } THEN resp ELSE NoResponse

\* lines 222-224: the response is a 200 and the classifier accepts its body
Qualifies(resp) ==
    resp.kind = "ok" /\ is_likely_municipal_site(resp.body, municipality, state)

\* the return of find_municipal_website to its caller
FMW_Return(url) ==
    /\ website' = url
    /\ find_phase' = "patterns"
    /\ find_idx' = 1
    /\ muni_website' = IF caller = "search" THEN url ELSE muni_website
    /\ pc' = IF caller = "find" THEN "done"
             ELSE IF caller = "search"
             THEN (IF Truthy(url) THEN "scrape_municipal_website"
                   ELSE "search_direct_for_officials")
             ELSE (IF Truthy(url) THEN "find_contact_pages"
                   ELSE "sample_data")

\* after a pattern that did not qualify: the next pattern, the known URLs of
\* line 233, or the return of None
FMW_Continue(patterns) ==
    IF find_idx < Len(patterns)
    THEN /\ find_idx' = find_idx + 1
         /\ UNCHANGED << find_phase, website, muni_website, pc >>
    ELSE IF HasKnownUrls(municipality, state)
    THEN /\ find_phase' = "known"
         /\ find_idx' = 1
         /\ UNCHANGED << website, muni_website, pc >>
    ELSE FMW_Return(None)

\* a loop that remembers a qualifying candidate but keeps requesting the rest
FMW_ProbeWith_Exhaustive(patterns, resp) ==
    /\ response' = Kept(resp)
    /\ probes' = Append(probes, [url |-> patterns[find_idx],
                                 phase |-> "patterns",
                                 qualified |-> Qualifies(resp)])
    /\ IF find_idx < Len(patterns)
       THEN /\ find_idx' = find_idx + 1
            /\ website' = IF Qualifies(resp) THEN patterns[find_idx] ELSE website
            /\ UNCHANGED << find_phase, muni_website, pc >>
       ELSE FMW_Return(IF Qualifies(resp) THEN patterns[find_idx] ELSE website)

\* one pass of the loop of lines 218-230
FMW_ProbeWith(patterns, resp) ==
    /\ response' = Kept(resp)
    /\ probes' = Append(probes, [url |-> patterns[find_idx],
                                 phase |-> "patterns",
                                 qualified |-> Qualifies(resp)])
    /\ IF Qualifies(resp)
       THEN FMW_Return(patterns[find_idx])
       ELSE FMW_Continue(patterns)

FMW_Probe ==
    /\ pc = "find_municipal_website"
    /\ find_phase = "patterns"
    /\ \E resp \in Responses :
          /\ resp.kind \in { "ok", "non200" } => Live(find_idx)
          /\ FMW_ProbeWith(generate_url_patterns(municipality, state), resp)
    /\ UNCHANGED << municipality, state, caller >>
    /\ UNCHANGED dedup_vars
    /\ UNCHANGED << search_vars, unit_vars >>

\* one pass of the loop of lines 241-249, and line 252 after the last pass
FMW_ProbeKnown ==
    /\ pc = "find_municipal_website"
    /\ find_phase = "known"
    /\ \E resp \in Responses :
          /\ resp.kind \in { "ok", "non200" } => Live(find_idx)
          /\ response' = Kept(resp)
          /\ probes' = Append(probes, [url |-> direct_urls[find_idx],
                                       phase |-> "known",
                                       qualified |-> resp.kind = "ok"])
          /\ IF resp.kind = "ok"
             THEN FMW_Return(direct_urls[find_idx])
             ELSE IF find_idx < Len(direct_urls)
             THEN /\ find_idx' = find_idx + 1
                  /\ UNCHANGED << find_phase, website, muni_website, pc >>
             ELSE FMW_Return(None)
    /\ UNCHANGED << municipality, state, caller >>
    /\ UNCHANGED dedup_vars
    /\ UNCHANGED << search_vars, unit_vars >>

\* (municipality, state) pairs the functions are called with
SearchArgs ==
    { << <<"D","e","s"," ","M","o","i","n","e","s">>, <<"I","A">> >>, << <<"C","e","d","a","r"," ","R","a","p","i","d","s">>, <<"I","A">> >>,
      << <<"A","m","e","s">>, <<"I","A">> >>, << <<"A","m","e","s">>, <<"I","o","w","a">> >> }

InitFind ==
    /\ \E a \in SearchArgs : municipality = a[1] /\ state = a[2]
    /\ pc = "find_municipal_website"
    /\ caller = "find"
    /\ find_phase = "patterns"
    /\ find_idx = 1
    /\ probes = << >>
    /\ response = NoResponse
    /\ website = None
    /\ google_results = << >>
    /\ muni_website = None
    /\ contact_pages = << >>
    /\ path_idx = 1
    /\ link_idx = 1
    /\ direct_results = << >>
    /\ contact_texts = << >>
    /\ UnitIdle
    /\ officials_list = << >>
    /\ officials_by_key = << >>
    /\ final_results = << >>
    /\ lookups = << >>
    /\ ret = << >>
    /\ raised = FALSE

NextFind == FMW_Probe \/ FMW_ProbeKnown

SpecFind == InitFind /\ [][NextFind]_vars


\* ------------------------------------------------ extract_officials_from_text
\* A text is given by the matches the patterns of lines 161-213 find in it, in
\* the order found: name and title as the groups capture them, the e-mail and
\* phone found near the match, and the initial score of the pattern.
RawMatch(n, t, e, p, c) ==
    [ name |-> n, title |-> t, email |-> e, phone |-> p,
      confidence_score |-> c ]

\* the e-mail is left as matched
CheckedEmail_Kept(email) == email

\* lines 221-230: the e-mail and the phone of a match that is kept
CheckedEmail(email) ==
    IF Truthy(email) /\ ~validate_email(email) THEN None ELSE email

CheckedPhone(phone) ==
    IF Truthy(phone) THEN validate_phone(phone) ELSE phone

\* lines 216-234
RECURSIVE extract_officials_from_text(_)
extract_officials_from_text(text) ==
    IF text = << >> THEN << >>
    ELSE (IF validate_official_name(Head(text).name)
             /\ validate_official_title(Head(text).title)
          THEN << [ name |-> Head(text).name,
                    title |-> Head(text).title,
                    email |-> CheckedEmail(Head(text).email),
                    phone |-> CheckedPhone(Head(text).phone),
                    linkedin_url |-> Missing,
                    source |-> Missing,
                    confidence_score |-> Head(text).confidence_score ] >>
          ELSE << >>)
             \o extract_officials_from_text(Tail(text))

\* official['source'] = ... for every official of a list
Tag(officials, source) ==
    [ i \in 1..Len(officials) |-> [officials[i] EXCEPT !.source = source] ]

\* matches the patterns produce
EMAIL_PIPE == <<"a","l","@","c","i","t","y",".","g","|","v">>
PHONE_DASHED == <<"5","1","5","-","5","5","5","-","1","2","3","4">>
TITLE_CITY_CLERK == <<"C","i","t","y"," ","C","l","e","r","k">>
NAME_VENDOR_2 == <<"V","e","n","d","o","r"," ","S","o","l","u","t","i","o","n","s">>

RAW_JANE == RawMatch(NAME_JANE, TITLE_CITY_CLERK, EMAIL_1, PHONE_DASHED, 500)
RAW_JANE_EMAIL == RawMatch(NAME_JANE, TITLE_CITY_CLERK, EMAIL_2, None, 600)
RAW_VENDOR == RawMatch(NAME_VENDOR_2, TITLE_MAYOR, None, None, 500)
RAW_AL == RawMatch(NAME_AL, TITLE_MAYOR, EMAIL_PIPE, None, 500)

TEXT_STAFF == << RAW_JANE, RAW_VENDOR >>
TEXT_MAYOR == << RAW_AL, RAW_JANE_EMAIL >>

\* -------------------------------------------------------------- search_google
\* the request fails, answers another status, or answers 200 with the
\* snippets of the results whose title passes the test of line 72
GoogleOutcomes ==
    { [kind |-> "error", snippets |-> << >>],
      [kind |-> "non200", snippets |-> << >>],
      [kind |-> "ok", snippets |-> << >>],
      [kind |-> "ok", snippets |-> << TEXT_STAFF >>],
      [kind |-> "ok", snippets |-> << TEXT_MAYOR >>] }

SOURCE_GOOGLE == <<"G","o","o","g","l","e"," ","S","e","a","r","c","h">>

\* lines 70-81
RECURSIVE SnippetOfficials(_)
SnippetOfficials(snippets) ==
    IF snippets = << >> THEN << >>
    ELSE Tag(extract_officials_from_text(Head(snippets)), SOURCE_GOOGLE)
             \o SnippetOfficials(Tail(snippets))

search_google(out) ==
    IF out.kind = "ok" THEN SnippetOfficials(out.snippets) ELSE << >>

\* --------------------------------------------------- scrape_municipal_website
\* s.rstrip('/')
RECURSIVE RStripSlash(_)
RStripSlash(s) ==
    IF s # << >> /\ s[Len(s)] = "/"
    THEN RStripSlash(SubSeq(s, 1, Len(s) - 1))
    ELSE s

StartsWith(s, prefix) ==
    Len(s) >= Len(prefix) /\ SubSeq(s, 1, Len(prefix)) = prefix

\* line 104
contact_terms ==
    { <<"c","o","n","t","a","c","t">>, <<"m","a","y","o","r">>, <<"c","o","u","n","c","i","l">>, <<"o","f","f","i","c","i","a","l","s">>, <<"g","o","v","e","r","n","m","e","n","t">>,
      <<"d","e","p","a","r","t","m","e","n","t","s">> }

IsContactLabel(label) ==
    \E term \in contact_terms : Contains(term, Lower(label))

\* lines 106-109
NormalizeHref(website_url, href) ==
    IF StartsWith(href, << "/" >>)
    THEN RStripSlash(website_url) \o href
    ELSE IF ~(StartsWith(href, <<"h","t","t","p",":","/","/">>) \/ StartsWith(href, <<"h","t","t","p","s",":","/","/">>))
    THEN RStripSlash(website_url) \o << "/" >> \o href
    ELSE href

\* lines 100-110: the anchors kept, their href made absolute
RECURSIVE contact_links(_, _)
contact_links(website_url, anchors) ==
    IF anchors = << >> THEN << >>
    ELSE (IF IsContactLabel(Head(anchors).label)
          THEN << [Head(anchors) EXCEPT
                      !.href = NormalizeHref(website_url, Head(anchors).href)] >>
          ELSE << >>)
             \o contact_links(website_url, Tail(anchors))

\* lines 115-132 for one link: the page text, then the text of its
\* contact section when the page has one
PageOfficials(link) ==
    IF link.kind = "ok"
    THEN Tag(extract_officials_from_text(link.text), link.href)
             \o (IF link.sectioned
                 THEN Tag(extract_officials_from_text(link.text), link.href)
                 ELSE << >>)
    ELSE << >>

RECURSIVE ScrapeLinks(_)
ScrapeLinks(links) ==
    IF links = << >> THEN << >>
    ELSE PageOfficials(Head(links)) \o ScrapeLinks(Tail(links))

\* an anchor of a fetched page and what a request for its target gives:
\* an exception, another status, or a 200 page with a text
Anchor(h, l, k, t, sec) ==
    [ href |-> h, label |-> l, kind |-> k, text |-> t, sectioned |-> sec ]

A_STAFF == Anchor(<<"/","s","t","a","f","f">>, <<"M","a","y","o","r"," ","&"," ","C","o","u","n","c","i","l">>, "ok", TEXT_STAFF, TRUE)
A_COUNCIL == Anchor(<<"c","o","u","n","c","i","l",".","h","t","m","l">>, <<"C","i","t","y"," ","C","o","u","n","c","i","l">>, "ok", TEXT_MAYOR, FALSE)
A_DOWN == Anchor(<<"h","t","t","p","s",":","/","/","w","w","w",".","a","m","e","s",".","g","o","v","/","m","a","y","o","r">>, <<"C","o","n","t","a","c","t"," ","t","h","e"," ","M","a","y","o","r">>,
                 "error", << >>, FALSE)
A_GONE == Anchor(<<"/","c","o","n","t","a","c","t">>, <<"C","o","n","t","a","c","t"," ","U","s">>, "non200", << >>, FALSE)
A_NEWS == Anchor(<<"/","n","e","w","s">>, <<"N","e","w","s">>, "ok", TEXT_STAFF, FALSE)

\* what the request of line 92 gives
\* (for a 200: the anchors of the page and the text of the page itself)
ScrapeOutcomes ==
    { [kind |-> "error", anchors |-> << >>, text |-> << >>],
      [kind |-> "non200", anchors |-> << >>, text |-> << >>],
      [kind |-> "ok", anchors |-> << A_NEWS, A_STAFF >>, text |-> TEXT_MAYOR],
      [kind |-> "ok", anchors |-> << A_DOWN, A_COUNCIL >>, text |-> TEXT_STAFF],
      [kind |-> "ok", anchors |-> << A_GONE, A_DOWN, A_GONE, A_STAFF >>,
       text |-> << >>] }

scrape_municipal_website(website_url, out) ==
    IF out.kind = "ok"
    THEN ScrapeLinks(First3(contact_links(website_url, out.anchors)))
    ELSE << >>

\* ------------------------------------------------------------ filter_officials
min_confidence == 600

\* a record at the threshold is dropped
RECURSIVE FilterLoop_Strict(_, _)
FilterLoop_Strict(officials, threshold) ==
    IF officials = << >> THEN << >>
    ELSE (IF Scored(Head(officials)).confidence_score > threshold
          THEN << Scored(Head(officials)) >>
          ELSE << >>)
             \o FilterLoop_Strict(Tail(officials), threshold)

\* lines 463-474: the records appended, each as the scorer and line 468
\* left it
RECURSIVE FilterLoop(_, _)
FilterLoop(officials, threshold) ==
    IF officials = << >> THEN << >>
    ELSE (IF Scored(Head(officials)).confidence_score >= threshold
          THEN << Scored(Head(officials)) >>
          ELSE << >>)
             \o FilterLoop(Tail(officials), threshold)

\* the call with the default threshold
filter_officials(officials) == FilterLoop(officials, min_confidence)

\* ---------------------------------------------------------- find_contact_pages
contact_paths ==
    << <<"/","c","o","n","t","a","c","t">>, <<"/","d","i","r","e","c","t","o","r","y">>, <<"/","s","t","a","f","f">>, <<"/","o","f","f","i","c","i","a","l","s">>,
       <<"/","e","l","e","c","t","e","d","-","o","f","f","i","c","i","a","l","s">>, <<"/","g","o","v","e","r","n","m","e","n","t">>, <<"/","d","e","p","a","r","t","m","e","n","t","s">>,
       <<"/","a","d","m","i","n","i","s","t","r","a","t","i","o","n">>, <<"/","c","i","t","y","-","h","a","l","l">>, <<"/","a","b","o","u","t">>, <<"/","l","e","a","d","e","r","s","h","i","p">>,
       <<"/","c","i","t","y","-","c","o","u","n","c","i","l">>, <<"/","m","a","y","o","r">>, <<"/","c","l","e","r","k">>, <<"/","t","e","a","m">>, <<"/","c","o","u","n","c","i","l">>,
       <<"/","c","i","t","y","-","m","a","n","a","g","e","r">>, <<"/","c","o","n","t","a","c","t","-","u","s">>, <<"/","p","h","o","n","e","-","d","i","r","e","c","t","o","r","y">>,
       <<"/","e","m","p","l","o","y","e","e","-","d","i","r","e","c","t","o","r","y">>, <<"/","c","i","t","y","-","d","e","p","a","r","t","m","e","n","t","s">> >>

\* how many paths answer with a 200 when find_contact_pages is called on its
\* own
MaxPages == 2

\* the page at path i may answer
Answers(i) ==
    IF caller = "contact" THEN Len(contact_pages) < MaxPages ELSE Live(i)

\* line 278
ContactUrl(base_url, i) == RStripSlash(base_url) \o contact_paths[i]

\* lines 280-282 with every response kept
FCP_Pages_AnyResponse(resp, url) ==
    IF resp.kind \in { "ok", "non200" } THEN Append(contact_pages, url)
    ELSE contact_pages

\* lines 280-282: contact_pages after the pass
FCP_Pages(resp, url) ==
    IF resp.kind = "ok" THEN Append(contact_pages, url) ELSE contact_pages

\* after the last path: line 287, then in search_direct_for_officials the
\* loop of line 254, or line 263 when the list is empty
FCP_Return(pages) ==
    /\ contact_pages' = pages
    /\ IF path_idx < Len(contact_paths)
       THEN path_idx' = path_idx + 1 /\ pc' = pc
       ELSE /\ path_idx' = 1
            /\ pc' = IF caller = "contact" THEN "done"
                     ELSE IF pages = << >> THEN "sample_data"
                     ELSE "visit_contact_pages"

\* what make_request gives at line 279; inside search_for_officials the body
\* of the page is read by nothing, so one body stands for all
ContactResponses ==
    IF caller = "contact" THEN Responses
    ELSE { r \in Responses : r.body \in { << >>, BODY_WELCOME } }

\* one pass of the loop of lines 277-285
FCP_Probe ==
    /\ pc = "find_contact_pages"
    /\ \E resp \in ContactResponses :
          /\ resp.kind \in { "ok", "non200" } => Answers(path_idx)
          /\ FCP_Return(FCP_Pages(resp, ContactUrl(website, path_idx)))
          /\ response' = Kept(resp)
          /\ probes' = IF caller = "contact"
                       THEN Append(probes,
                                   [url |-> ContactUrl(website, path_idx),
                                    phase |-> "contact",
                                    qualified |-> resp.kind = "ok"])
                       ELSE probes
    /\ UNCHANGED << municipality, state, muni_website, google_results,
                    link_idx, direct_results, contact_texts >>
    /\ UNCHANGED << caller, find_phase, find_idx, website >>
    /\ UNCHANGED dedup_vars
    /\ UNCHANGED unit_vars

\* the variables of each part of the program, at rest
FindIdle ==
    /\ find_phase = "patterns"
    /\ find_idx = 1
    /\ probes = << >>
    /\ response = NoResponse

SearchIdle ==
    /\ google_results = << >>
    /\ muni_website = None
    /\ contact_pages = << >>
    /\ path_idx = 1
    /\ link_idx = 1
    /\ direct_results = << >>
    /\ contact_texts = << >>

DedupIdle ==
    /\ officials_list = << >>
    /\ officials_by_key = << >>
    /\ final_results = << >>
    /\ lookups = << >>
    /\ ret = << >>
    /\ raised = FALSE

\* the base_url of a call of find_contact_pages on its own
BaseUrls == { <<"h","t","t","p","s",":","/","/","w","w","w",".","a","m","e","s",".","g","o","v">>, <<"h","t","t","p","s",":","/","/","w","w","w",".","a","m","e","s",".","g","o","v","/">> }

\* find_contact_pages(base_url) called on its own
InitContact ==
    /\ municipality = <<"A","m","e","s">>
    /\ state = <<"I","A">>
    /\ pc = "find_contact_pages"
    /\ caller = "contact"
    /\ website \in BaseUrls
    /\ FindIdle
    /\ SearchIdle
    /\ DedupIdle
    /\ UnitIdle

SpecContact == InitContact /\ [][FCP_Probe]_vars

\* ------------------------------------------------ search_direct_for_officials
SOURCE_SAMPLE == <<"S","a","m","p","l","e"," ","d","a","t","a">>

Sample(n, t, e, p, l) == Official(n, t, e, p, l, SOURCE_SAMPLE, 1000)

\* lines 267-313
SAMPLE_DES_MOINES ==
    << Sample(<<"F","r","a","n","k"," ","C","o","w","n","i","e">>, <<"M","a","y","o","r">>, <<"m","a","y","o","r","@","d","s","m",".","c","i","t","y">>,
              <<"(","5","1","5",")"," ","2","8","3","-","4","9","4","4">>,
              <<"h","t","t","p","s",":","/","/","w","w","w",".","l","i","n","k","e","d","i","n",".","c","o","m","/","i","n","/","f","r","a","n","k","-","c","o","w","n","i","e","-","m","a","y","o","r","-","d","e","s","m","o","i","n","e","s">>),
       Sample(<<"S","c","o","t","t"," ","S","a","n","d","e","r","s">>, <<"C","i","t","y"," ","M","a","n","a","g","e","r">>, <<"c","i","t","y","m","g","r","@","d","s","m",".","c","i","t","y">>,
              <<"(","5","1","5",")"," ","2","8","3","-","4","1","4","1">>,
              <<"h","t","t","p","s",":","/","/","w","w","w",".","l","i","n","k","e","d","i","n",".","c","o","m","/","i","n","/","s","c","o","t","t","-","s","a","n","d","e","r","s","-","d","e","s","m","o","i","n","e","s">>),
       Sample(<<"J","o","n","a","t","h","a","n"," ","G","a","n","o">>, <<"P","u","b","l","i","c"," ","W","o","r","k","s"," ","D","i","r","e","c","t","o","r">>,
              <<"j","g","a","n","o","@","d","s","m",".","c","i","t","y">>, <<"(","5","1","5",")"," ","2","8","3","-","4","9","5","0">>,
              <<"h","t","t","p","s",":","/","/","w","w","w",".","l","i","n","k","e","d","i","n",".","c","o","m","/","i","n","/","j","o","n","a","t","h","a","n","-","g","a","n","o","-","d","e","s","m","o","i","n","e","s">>),
       Sample(<<"L","a","u","r","a"," ","B","a","u","m","g","a","r","t","n","e","r">>, <<"C","i","t","y"," ","C","l","e","r","k">>, <<"c","l","e","r","k","@","d","s","m",".","c","i","t","y">>,
              <<"(","5","1","5",")"," ","2","8","3","-","4","2","0","9">>,
              <<"h","t","t","p","s",":","/","/","w","w","w",".","l","i","n","k","e","d","i","n",".","c","o","m","/","i","n","/","l","a","u","r","a","-","b","a","u","m","g","a","r","t","n","e","r","-","d","e","s","m","o","i","n","e","s">>),
       Sample(<<"S","t","e","v","e","n"," ","N","a","b","e","r">>, <<"C","i","t","y"," ","E","n","g","i","n","e","e","r">>, <<"e","n","g","i","n","e","e","r","@","d","s","m",".","c","i","t","y">>,
              <<"(","5","1","5",")"," ","2","8","3","-","4","9","2","0">>,
              <<"h","t","t","p","s",":","/","/","w","w","w",".","l","i","n","k","e","d","i","n",".","c","o","m","/","i","n","/","s","t","e","v","e","n","-","n","a","b","e","r","-","d","e","s","m","o","i","n","e","s">>) >>

\* lines 315-361
SAMPLE_CEDAR_RAPIDS ==
    << Sample(<<"T","i","f","f","a","n","y"," ","O","'","D","o","n","n","e","l","l">>, <<"M","a","y","o","r">>, <<"m","a","y","o","r","@","c","e","d","a","r","-","r","a","p","i","d","s",".","o","r","g">>,
              <<"(","3","1","9",")"," ","2","8","6","-","5","0","5","1">>,
              <<"h","t","t","p","s",":","/","/","w","w","w",".","l","i","n","k","e","d","i","n",".","c","o","m","/","i","n","/","t","i","f","f","a","n","y","-","o","d","o","n","n","e","l","l","-","c","e","d","a","r","r","a","p","i","d","s">>),
       Sample(<<"J","e","f","f"," ","P","o","m","e","r","a","n","z">>, <<"C","i","t","y"," ","M","a","n","a","g","e","r">>,
              <<"j",".","p","o","m","e","r","a","n","z","@","c","e","d","a","r","-","r","a","p","i","d","s",".","o","r","g">>, <<"(","3","1","9",")"," ","2","8","6","-","5","0","8","0">>,
              <<"h","t","t","p","s",":","/","/","w","w","w",".","l","i","n","k","e","d","i","n",".","c","o","m","/","i","n","/","j","e","f","f","-","p","o","m","e","r","a","n","z","-","c","e","d","a","r","r","a","p","i","d","s">>),
       Sample(<<"A","n","g","i","e"," ","C","h","a","r","i","p","a","r">>, <<"A","s","s","i","s","t","a","n","t"," ","C","i","t","y"," ","M","a","n","a","g","e","r">>,
              <<"a",".","c","h","a","r","i","p","a","r","@","c","e","d","a","r","-","r","a","p","i","d","s",".","o","r","g">>, <<"(","3","1","9",")"," ","2","8","6","-","5","0","9","0">>,
              <<"h","t","t","p","s",":","/","/","w","w","w",".","l","i","n","k","e","d","i","n",".","c","o","m","/","i","n","/","a","n","g","i","e","-","c","h","a","r","i","p","a","r","-","c","e","d","a","r","r","a","p","i","d","s">>),
       Sample(<<"R","o","b","e","r","t"," ","D","a","v","i","s">>, <<"P","u","b","l","i","c"," ","W","o","r","k","s"," ","D","i","r","e","c","t","o","r">>,
              <<"r",".","d","a","v","i","s","@","c","e","d","a","r","-","r","a","p","i","d","s",".","o","r","g">>, <<"(","3","1","9",")"," ","2","8","6","-","5","8","0","2">>,
              <<"h","t","t","p","s",":","/","/","w","w","w",".","l","i","n","k","e","d","i","n",".","c","o","m","/","i","n","/","r","o","b","e","r","t","-","d","a","v","i","s","-","c","e","d","a","r","r","a","p","i","d","s">>),
       Sample(<<"A","m","y"," ","S","t","e","v","e","n","s","o","n">>, <<"C","i","t","y"," ","C","l","e","r","k">>,
              <<"c","i","t","y","c","l","e","r","k","@","c","e","d","a","r","-","r","a","p","i","d","s",".","o","r","g">>, <<"(","3","1","9",")"," ","2","8","6","-","5","0","6","0">>,
              <<"h","t","t","p","s",":","/","/","w","w","w",".","l","i","n","k","e","d","i","n",".","c","o","m","/","i","n","/","a","m","y","-","s","t","e","v","e","n","s","o","n","-","c","e","d","a","r","r","a","p","i","d","s">>) >>

\* lines 264-361: the records put in place of an empty result
SampleData(municipality_name, st) ==
    IF municipality_name = <<"D","e","s"," ","M","o","i","n","e","s">> /\ st = <<"I","A">>
    THEN SAMPLE_DES_MOINES
    ELSE IF municipality_name = <<"C","e","d","a","r"," ","R","a","p","i","d","s">> /\ st = <<"I","A">>
    THEN SAMPLE_CEDAR_RAPIDS
    ELSE << >>

\* lines 264-361
WithSampleData(results, municipality_name, st) ==
    IF results = << >> THEN SampleData(municipality_name, st) ELSE results

\* lines 241-245: the call of find_municipal_website
SDO_Enter ==
    /\ pc = "search_direct_for_officials"
    /\ caller' = "direct"
    /\ probes' = << >>
    /\ response' = NoResponse
    /\ direct_results' = << >>
    /\ pc' = "find_municipal_website"
    /\ UNCHANGED << municipality, state, find_phase, find_idx, website,
                    muni_website, google_results, contact_pages, path_idx,
                    link_idx, contact_texts >>
    /\ UNCHANGED dedup_vars
    /\ UNCHANGED unit_vars

\* one pass of the loop of lines 254-261
SDO_Visit ==
    /\ pc = "visit_contact_pages"
    /\ \E out \in ScrapeOutcomes :
          /\ direct_results' = direct_results
                 \o scrape_municipal_website(contact_pages[link_idx], out)
          /\ contact_texts' = IF out.kind = "ok" /\ out.text # << >>
                              THEN Append(contact_texts, out.text)
                              ELSE contact_texts
    /\ IF link_idx < Len(contact_pages)
       THEN link_idx' = link_idx + 1 /\ pc' = pc
       ELSE link_idx' = 1 /\ pc' = "sample_data"
    /\ UNCHANGED << municipality, state, muni_website, google_results,
                    contact_pages, path_idx >>
    /\ UNCHANGED find_vars
    /\ UNCHANGED dedup_vars
    /\ UNCHANGED unit_vars

\* lines 263-366, and lines 45-49 of search_for_officials: the results
\* are added to the pool and score_and_deduplicate is called on it
SDO_Finish ==
    /\ pc = "sample_data"
    /\ direct_results' =
           filter_officials(WithSampleData(direct_results, municipality, state))
    /\ officials_list' = officials_list \o direct_results'
    /\ pc' = "score_and_deduplicate"
    /\ UNCHANGED << municipality, state, muni_website, google_results,
                    contact_pages, path_idx, link_idx, contact_texts >>
    /\ UNCHANGED << officials_by_key, final_results, lookups, ret, raised >>
    /\ UNCHANGED find_vars
    /\ UNCHANGED unit_vars

\* ------------------------------------------------------- search_for_officials
\* lines 26-37: the pool starts as what search_google returned, then
\* find_municipal_website is called
SFO_Google ==
    /\ pc = "search_for_officials"
    /\ \E out \in GoogleOutcomes : google_results' = search_google(out)
    /\ officials_list' = google_results'
    /\ caller' = "search"
    /\ probes' = << >>
    /\ response' = NoResponse
    /\ pc' = "find_municipal_website"
    /\ UNCHANGED << municipality, state, find_phase, find_idx, website,
                    muni_website, contact_pages, path_idx, link_idx,
                    direct_results, contact_texts >>
    /\ UNCHANGED << officials_by_key, final_results, lookups, ret, raised >>
    /\ UNCHANGED unit_vars

\* lines 39-41
SFO_Scrape ==
    /\ pc = "scrape_municipal_website"
    /\ \E out \in ScrapeOutcomes :
          officials_list' = officials_list
              \o scrape_municipal_website(muni_website, out)
    /\ pc' = "search_direct_for_officials"
    /\ UNCHANGED << municipality, state, muni_website, search_vars >>
    /\ UNCHANGED << officials_by_key, final_results, lookups, ret, raised >>
    /\ UNCHANGED find_vars
    /\ UNCHANGED unit_vars

\* ------------------------------------ scrape_municipal_website, page by page
\* further pages the request of line 92 gives when the function is called on
\* its own: a failing page between two good ones, and a page without links
A_GOV == Anchor(<<"g","o","v">>, <<"G","o","v","e","r","n","m","e","n","t">>, "ok", TEXT_MAYOR, FALSE)

LinkedPages ==
    ScrapeOutcomes \cup
        { [kind |-> "ok", anchors |-> << A_STAFF, A_DOWN, A_COUNCIL >>,
           text |-> << >>],
          [kind |-> "ok", anchors |-> << A_GOV, A_GONE, A_STAFF >>,
           text |-> << >>],
          [kind |-> "ok", anchors |-> << A_NEWS >>, text |-> << >>] }

\* one pass of the loop of line 113 that drops what was found when the page
\* fails
SMW_Page_FailureDiscards(link) ==
    IF link.kind = "ok" THEN scrape_results \o PageOfficials(link) ELSE << >>

\* one pass of the loop of line 113: results after the page at link; an
\* exception in lines 115-132 is caught at line 133
SMW_Page(link) == scrape_results \o PageOfficials(link)

\* lines 91-110: the request for website_url and the links kept
SMW_Fetch ==
    /\ pc = "fetch_website"
    /\ \E out \in LinkedPages :
          /\ scrape_links' = IF out.kind = "ok"
                             THEN First3(contact_links(muni_website,
                                                       out.anchors))
                             ELSE << >>
          /\ pc' = IF scrape_links' = << >> THEN "done" ELSE "visit_links"
    /\ page_idx' = 1
    /\ scrape_results' = << >>
    /\ UNCHANGED << municipality, state, muni_website, search_vars >>
    /\ UNCHANGED find_vars
    /\ UNCHANGED dedup_vars
    /\ UNCHANGED << retry_count, verify_ssl, attempts, arg, calls >>
    /\ UNCHANGED run_vars

\* lines 113-137 for one link, and line 139 after the last
SMW_Visit ==
    /\ pc = "visit_links"
    /\ scrape_results' = SMW_Page(scrape_links[page_idx])
    /\ page_idx' = page_idx + 1
    /\ pc' = IF page_idx < Len(scrape_links) THEN pc ELSE "done"
    /\ UNCHANGED << municipality, state, muni_website, search_vars >>
    /\ UNCHANGED find_vars
    /\ UNCHANGED dedup_vars
    /\ UNCHANGED << scrape_links, retry_count, verify_ssl, attempts, arg,
                    calls >>
    /\ UNCHANGED run_vars

\* scrape_municipal_website(website_url) called on its own
InitScrape ==
    /\ municipality = <<"A","m","e","s">>
    /\ state = <<"I","A">>
    /\ pc = "fetch_website"
    /\ caller = "scrape"
    /\ website = None
    /\ FindIdle
    /\ google_results = << >>
    /\ muni_website \in BaseUrls
    /\ contact_pages = << >>
    /\ path_idx = 1
    /\ link_idx = 1
    /\ direct_results = << >>
    /\ contact_texts = << >>
    /\ DedupIdle
    /\ UnitIdle

InitSearch ==
    /\ \E a \in SearchArgs : municipality = a[1] /\ state = a[2]
    /\ pc = "search_for_officials"
    /\ caller = "none"
    /\ find_phase = "patterns"
    /\ find_idx = 1
    /\ probes = << >>
    /\ response = NoResponse
    /\ website = None
    /\ google_results = << >>
    /\ muni_website = None
    /\ contact_pages = << >>
    /\ path_idx = 1
    /\ link_idx = 1
    /\ direct_results = << >>
    /\ contact_texts = << >>
    /\ UnitIdle
    /\ officials_list = << >>
    /\ officials_by_key = << >>
    /\ final_results = << >>
    /\ lookups = << >>
    /\ ret = << >>
    /\ raised = FALSE

Init == InitSearch \/ InitDedup \/ InitScrape

Next ==
    \/ SFO_Google
    \/ SMW_Fetch
    \/ SMW_Visit
    \/ FMW_Probe
    \/ FMW_ProbeKnown
    \/ SFO_Scrape
    \/ SDO_Enter
    \/ FCP_Probe
    \/ SDO_Visit
    \/ SDO_Finish
    \/ SD_Enter
    \/ SD_Iter

Spec == Init /\ [][Next]_vars

\* search_for_officials called with an empty municipality name or an empty
\* state code
MalformedArgs == { << << >>, <<"I","A">> >>, << <<"A","m","e","s">>, << >> >>, << << >>, << >> >> }

InitMalformed ==
    /\ \E a \in MalformedArgs : municipality = a[1] /\ state = a[2]
    /\ pc = "search_for_officials"
    /\ caller = "none"
    /\ website = None
    /\ FindIdle
    /\ SearchIdle
    /\ DedupIdle
    /\ UnitIdle

\* (the known URLs of line 233 are tried for Des Moines only)
NextMalformed ==
    \/ SFO_Google
    \/ FMW_Probe
    \/ SFO_Scrape
    \/ SDO_Enter
    \/ FCP_Probe
    \/ SDO_Visit
    \/ SDO_Finish
    \/ SD_Enter
    \/ SD_Iter

SpecMalformed == InitMalformed /\ [][NextMalformed]_vars

\* --------------------------------------------------------------- make_request
MAX_RETRIES == 3

\* what requests.request does at line 182: it returns a response, raises
\* SSLError, raises another RequestException (Timeout among them), or
\* raises an exception line 189 does not catch
RequestOutcomes ==
    { [kind |-> "ssl_error", body |-> << >>],
      [kind |-> "error", body |-> << >>],
      [kind |-> "exception", body |-> << >>],
      [kind |-> "non200", body |-> << >>],
      [kind |-> "ok", body |-> BODY_WELCOME],
      [kind |-> "ok", body |-> BODY_PARKED] }

\* line 196 with the bound included
RetryAllowed_Inclusive(n) == n <= MAX_RETRIES

\* line 196
RetryAllowed(n) == n < MAX_RETRIES

\* lines 200-202, or the exception leaving the function
MR_Return(resp, exc) ==
    /\ response' = resp
    /\ raised' = exc
    /\ pc' = "done"
    /\ UNCHANGED << retry_count, verify_ssl >>

\* one call of make_request: the request of lines 182-188 and the branch
\* of lines 189-202 taken; the recursive calls of lines 195 and 199 are the
\* next steps
MR_Attempt ==
    /\ pc = "make_request"
    /\ \E out \in RequestOutcomes :
          /\ attempts' = Append(attempts,
                                [retry_count |-> retry_count,
                                 verify_ssl |-> verify_ssl,
                                 kind |-> out.kind])
          /\ IF out.kind \in { "ok", "non200" }
             THEN MR_Return(out, FALSE)
             ELSE IF out.kind = "exception"
             THEN MR_Return(response, TRUE)
             ELSE IF out.kind = "ssl_error" /\ verify_ssl
             THEN /\ verify_ssl' = FALSE
                  /\ UNCHANGED << retry_count, response, raised, pc >>
             ELSE IF RetryAllowed(retry_count)
             THEN /\ retry_count' = retry_count + 1
                  /\ UNCHANGED << verify_ssl, response, raised, pc >>
             ELSE MR_Return(NoResponse, FALSE)
    /\ UNCHANGED << municipality, state, muni_website, search_vars >>
    /\ UNCHANGED << caller, find_phase, find_idx, probes, website >>
    /\ UNCHANGED << officials_list, officials_by_key, final_results, lookups,
                    ret >>
    /\ UNCHANGED << scrape_links, page_idx, scrape_results, arg, calls >>
    /\ UNCHANGED run_vars

\* make_request(url) called with the default retry_count and verify_ssl
InitRequest ==
    /\ municipality = <<"A","m","e","s">>
    /\ state = <<"I","A">>
    /\ pc = "make_request"
    /\ caller = "request"
    /\ website \in BaseUrls
    /\ FindIdle
    /\ SearchIdle
    /\ DedupIdle
    /\ UnitIdle

SpecRequest == InitRequest /\ [][MR_Attempt]_vars

\* ----------------------------------------------------- validate_phone, alone
\* the phone strings tried: a prefix, an area code and the rest, each in
\* several spellings, with and without the digits a number needs
PhonePrefixes == { << >>, <<"1">>, <<"+","1"," ">>, <<"1","-">>, <<"2">>, <<"0","1">> }
PhoneAreas == { << >>, <<"5","1","5">>, <<"(","5","1","5",")"," ">>, <<"5","1","5",".">>, <<"5","1">> }
PhoneRests ==
    { << >>, <<"5","5","5","1","2","3","4">>, <<"5","5","5","-","1","2","3","4">>, <<"5","5","5"," ","1","2","3","4","5">>, <<"5","5","5","1","2","3">>,
      <<"5","5","5","-","1","2","3","4"," ","x">> }

PhoneInputs ==
    { p \o a \o r : p \in PhonePrefixes, a \in PhoneAreas, r \in PhoneRests }
        \cup { None }

\* validate_phone(arg)
VP_Call ==
    /\ pc = "validate_phone"
    /\ calls' = Append(calls, [arg |-> arg, value |-> validate_phone(arg)])
    /\ pc' = "done"
    /\ UNCHANGED << municipality, state, muni_website, search_vars >>
    /\ UNCHANGED find_vars
    /\ UNCHANGED dedup_vars
    /\ UNCHANGED << scrape_links, page_idx, scrape_results, retry_count,
                    verify_ssl, attempts, arg >>
    /\ UNCHANGED run_vars

InitPhone ==
    /\ municipality = <<"A","m","e","s">>
    /\ state = <<"I","A">>
    /\ pc = "validate_phone"
    /\ caller = "validate_phone"
    /\ website = None
    /\ FindIdle
    /\ SearchIdle
    /\ DedupIdle
    /\ scrape_links = << >>
    /\ page_idx = 1
    /\ scrape_results = << >>
    /\ retry_count = 0
    /\ verify_ssl = TRUE
    /\ attempts = << >>
    /\ arg \in PhoneInputs
    /\ calls = << >>
    /\ runs = << >>
    /\ rng_calls = 0

SpecPhone == InitPhone /\ [][VP_Call]_vars

\* ------------------------------------------ calculate_confidence_score, alone
\* how many times the scorer is applied to the same record
MaxCalls == 2

\* the records scored: each field valid, invalid or absent
ScoreInputs ==
    { Official(n, t, e, p, l, SRC_1, 500) :
        n \in { NAME_JANE, NAME_VENDOR, << >> },
        t \in { TITLE_CLERK, TITLE_BAD },
        e \in { EMAIL_1, EMAIL_PIPE, None },
        p \in { PHONE_RAW, PHONE_CANON, PHONE_BAD, PHONE_DASHED, None, Missing },
        l \in { LINKEDIN_1, None, Missing } }

\* calculate_confidence_score(arg); the record is changed in place, so the
\* next call receives it as this call left it
CCS_Call ==
    /\ pc = "calculate_confidence_score"
    /\ calls' = Append(calls,
                       [arg |-> arg,
                        value |-> calculate_confidence_score(arg).score,
                        left |-> calculate_confidence_score(arg).official])
    /\ arg' = calculate_confidence_score(arg).official
    /\ pc' = IF Len(calls) + 1 < MaxCalls THEN pc ELSE "done"
    /\ UNCHANGED << municipality, state, muni_website, search_vars >>
    /\ UNCHANGED find_vars
    /\ UNCHANGED dedup_vars
    /\ UNCHANGED << scrape_links, page_idx, scrape_results, retry_count,
                    verify_ssl, attempts >>
    /\ UNCHANGED run_vars

InitScore ==
    /\ municipality = <<"A","m","e","s">>
    /\ state = <<"I","A">>
    /\ pc = "calculate_confidence_score"
    /\ caller = "calculate_confidence_score"
    /\ website = None
    /\ FindIdle
    /\ SearchIdle
    /\ DedupIdle
    /\ scrape_links = << >>
    /\ page_idx = 1
    /\ scrape_results = << >>
    /\ retry_count = 0
    /\ verify_ssl = TRUE
    /\ attempts = << >>
    /\ arg \in ScoreInputs
    /\ calls = << >>
    /\ runs = << >>
    /\ rng_calls = 0

SpecScore == InitScore /\ [][CCS_Call]_vars

\* ----------------------------- validate_official_name, validate_official_title
\* the names tried: a first part, a second part and an ending, in several
\* spellings
NameInputs ==
    { h \o c \o t :
        h \in { << >>, <<"J","a","n","e"," ">>, <<"j","a","n","e"," ">>, <<"J"," ">>, <<"D","r","."," ">> },
        c \in { << >>, <<"D","o","e">>, <<"d","o","e">>, <<"E","v","e","n","t">>, <<"V","e","n","d","o","r">>, <<"D">>,
                <<"O","'","N","e","i","l">>, <<"S","t","e","v","e","n">> },
        t \in { << >>, <<" ","R","o","e">>, <<"\n">>, <<" ","x">>, <<" ","E","V","E","N","T","S">> } }

\* the titles tried
TitleInputs ==
    { h \o c \o t :
        h \in { << >>, <<"V","e","n","d","o","r"," ">>, <<"D","e","p","u","t","y"," ">>, <<"I","T"," ">> },
        c \in { << >>, <<"M","a","y","o","r">>, <<"C","H","I","E","F">>, <<"D","i","r","e","c","t","o","r">>, <<"P","a","r","t","n","e","r">>,
                <<"a","b","c">>, <<"L","e","a","d">>, <<"c","i","t","y"," ","M","A","N","A","G","E","R">> },
        t \in { << >>, <<" ","S","u","p","p","o","r","t">>, <<"s">> } }
        \cup { None }

\* validate_official_name(arg)
VN_Call ==
    /\ pc = "validate_official_name"
    /\ calls' = Append(calls,
                       [fn |-> pc, arg |-> arg,
                        value |-> validate_official_name(arg)])
    /\ pc' = "done"
    /\ UNCHANGED << municipality, state, muni_website, search_vars >>
    /\ UNCHANGED find_vars
    /\ UNCHANGED dedup_vars
    /\ UNCHANGED << scrape_links, page_idx, scrape_results, retry_count,
                    verify_ssl, attempts, arg >>
    /\ UNCHANGED run_vars

\* validate_official_title(arg)
VT_Call ==
    /\ pc = "validate_official_title"
    /\ calls' = Append(calls,
                       [fn |-> pc, arg |-> arg,
                        value |-> validate_official_title(arg)])
    /\ pc' = "done"
    /\ UNCHANGED << municipality, state, muni_website, search_vars >>
    /\ UNCHANGED find_vars
    /\ UNCHANGED dedup_vars
    /\ UNCHANGED << scrape_links, page_idx, scrape_results, retry_count,
                    verify_ssl, attempts, arg >>
    /\ UNCHANGED run_vars

InitValidate ==
    /\ municipality = <<"A","m","e","s">>
    /\ state = <<"I","A">>
    /\ \/ pc = "validate_official_name" /\ arg \in NameInputs
       \/ pc = "validate_official_title" /\ arg \in TitleInputs
    /\ caller = "validate"
    /\ website = None
    /\ FindIdle
    /\ SearchIdle
    /\ DedupIdle
    /\ scrape_links = << >>
    /\ page_idx = 1
    /\ scrape_results = << >>
    /\ retry_count = 0
    /\ verify_ssl = TRUE
    /\ attempts = << >>
    /\ calls = << >>
    /\ runs = << >>
    /\ rng_calls = 0

SpecValidate == InitValidate /\ [][VN_Call \/ VT_Call]_vars

\* ------------------------------------------ extract_officials_from_text, alone
\* how many matches the patterns find in the text
MaxMatches == 2

RAW_PAREN == RawMatch(NAME_AL, TITLE_MAYOR, None, <<"(","5","1","5",")"," ","5","5","5","-","1","2","3","4">>, 500)
RAW_HYPHEN ==
    RawMatch(<<"M","a","r","y"," ","S","m","i","t","h","-","J","o","n","e","s">>, <<"C","o","u","n","c","i","l">>, <<"m","a","r","y","@","x",".","o","r","g">>,
             <<"5","1","5",".","5","5","5",".","1","2","3","4">>, 500)
RAW_SUPPORT ==
    RawMatch(<<"S","u","p","p","o","r","t"," ","S","e","r","v","i","c","e","s">>, <<"F","i","n","a","n","c","e"," ","D","i","r","e","c","t","o","r">>, EMAIL_PIPE,
             PHONE_DASHED, 500)

RawMatches ==
    { RAW_JANE, RAW_JANE_EMAIL, RAW_VENDOR, RAW_AL, RAW_PAREN, RAW_HYPHEN,
      RAW_SUPPORT }

\* extract_officials_from_text(arg)
EOT_Call ==
    /\ pc = "extract_officials_from_text"
    /\ calls' = Append(calls,
                       [fn |-> pc, arg |-> arg,
                        value |-> extract_officials_from_text(arg)])
    /\ pc' = "done"
    /\ UNCHANGED << municipality, state, muni_website, search_vars >>
    /\ UNCHANGED find_vars
    /\ UNCHANGED dedup_vars
    /\ UNCHANGED << scrape_links, page_idx, scrape_results, retry_count,
                    verify_ssl, attempts, arg >>
    /\ UNCHANGED run_vars

InitExtract ==
    /\ municipality = <<"A","m","e","s">>
    /\ state = <<"I","A">>
    /\ pc = "extract_officials_from_text"
    /\ caller = "extract"
    /\ website = None
    /\ FindIdle
    /\ SearchIdle
    /\ DedupIdle
    /\ scrape_links = << >>
    /\ page_idx = 1
    /\ scrape_results = << >>
    /\ retry_count = 0
    /\ verify_ssl = TRUE
    /\ attempts = << >>
    /\ arg \in ListsUpTo(RawMatches, MaxMatches)
    /\ calls = << >>
    /\ runs = << >>
    /\ rng_calls = 0

SpecExtract == InitExtract /\ [][EOT_Call]_vars

\* ----------------------------------------------------- filter_officials alone
MaxFiltered == 2

\* records with every score from 0 to 1.0, each carrying an upstream score
FilterRecords ==
    { Official(n, t, x[1], x[2], x[3], SRC_1, 1000) :
        n \in { NAME_JANE, << >> }, t \in { TITLE_CLERK, TITLE_BAD },
        x \in { << EMAIL_1, PHONE_RAW, LINKEDIN_1 >>,
                << None, None, Missing >>,
                << EMAIL_1, PHONE_BAD, None >> } }

\* min_confidence: 0.0, the default 0.6, 1.0
Thresholds == { 0, min_confidence, 1000 }

\* the input list after the call: lines 466-468 run for every record
Overwritten(officials) == [ i \in 1..Len(officials) |-> Scored(officials[i]) ]

FO_Call ==
    /\ pc = "filter_officials"
    /\ calls' = Append(calls,
           [fn |-> pc, arg |-> arg,
            value |-> FilterLoop(arg.officials, arg.min_confidence),
            left |-> Overwritten(arg.officials)])
    /\ pc' = "done"
    /\ UNCHANGED << municipality, state, muni_website, search_vars >>
    /\ UNCHANGED find_vars
    /\ UNCHANGED dedup_vars
    /\ UNCHANGED << scrape_links, page_idx, scrape_results, retry_count,
                    verify_ssl, attempts, arg >>
    /\ UNCHANGED run_vars

InitFilter ==
    /\ municipality = << >>
    /\ state = << >>
    /\ pc = "filter_officials"
    /\ caller = "filter_officials"
    /\ website = None
    /\ FindIdle
    /\ SearchIdle
    /\ DedupIdle
    /\ scrape_links = << >>
    /\ page_idx = 1
    /\ scrape_results = << >>
    /\ retry_count = 0
    /\ verify_ssl = TRUE
    /\ attempts = << >>
    /\ \E l \in ListsUpTo(FilterRecords, MaxFiltered), th \in Thresholds :
          arg = [officials |-> l, min_confidence |-> th]
    /\ calls = << >>
    /\ runs = << >>
    /\ rng_calls = 0

SpecFilter == InitFilter /\ [][FO_Call]_vars

\* ------------------------ extract_officials_from_text, the e-mail pass alone
\* lines 149-156
title_keywords ==
    << <<"M","a","y","o","r">>, <<"C","o","u","n","c","i","l">>, <<"C","o","u","n","c","i","l","p","e","r","s","o","n">>, <<"C","o","u","n","c","i","l","m","e","m","b","e","r">>,
       <<"C","o","u","n","c","i","l","o","r">>, <<"C","i","t","y"," ","M","a","n","a","g","e","r">>, <<"C","i","t","y"," ","A","d","m","i","n","i","s","t","r","a","t","o","r">>,
       <<"A","s","s","i","s","t","a","n","t"," ","C","i","t","y"," ","M","a","n","a","g","e","r">>, <<"A","s","s","i","s","t","a","n","t"," ","A","d","m","i","n","i","s","t","r","a","t","o","r">>,
       <<"P","u","b","l","i","c"," ","W","o","r","k","s"," ","D","i","r","e","c","t","o","r">>, <<"C","i","t","y"," ","E","n","g","i","n","e","e","r">>, <<"C","i","t","y"," ","C","l","e","r","k">>,
       <<"C","l","e","r","k">>, <<"T","r","e","a","s","u","r","e","r">>, <<"F","i","n","a","n","c","e"," ","D","i","r","e","c","t","o","r">>, <<"P","l","a","n","n","i","n","g"," ","D","i","r","e","c","t","o","r">>,
       <<"C","o","m","m","u","n","i","t","y"," ","D","e","v","e","l","o","p","m","e","n","t"," ","D","i","r","e","c","t","o","r">>, <<"P","a","r","k","s"," ","D","i","r","e","c","t","o","r">>,
       <<"P","o","l","i","c","e"," ","C","h","i","e","f">>, <<"F","i","r","e"," ","C","h","i","e","f">> >>

Pad(n) == [ i \in 1..n |-> " " ]

\* a text email_pattern matches once: what precedes the match, the name,
\* the separator and the address it matches, and what follows; start and
\* end are match.start() and match.end()
EmailText(prefix, name, sep, email, suffix) ==
    [ text |-> prefix \o name \o sep \o email \o suffix,
      start |-> Len(prefix),
      end |-> Len(prefix) + Len(name) + Len(sep) + Len(email),
      name |-> name, email |-> email ]

EmailPrefixes ==
    { << >>, <<"M","a","y","o","r">> \o Pad(45), <<"M","a","y","o","r">> \o Pad(46), <<"C","I","T","Y"," ","C","L","E","R","K"," ">> }

EmailSuffixes ==
    { << >>, Pad(45) \o <<"C","l","e","r","k">>, Pad(46) \o <<"C","l","e","r","k">>,
      <<" ","F","i","r","e"," ","C","h","i","e","f"," ","a","n","d"," ","m","a","y","o","r">>, <<" ","c","o","u","n","c","i","l","m","e","m","b","e","r">> }

EmailTexts ==
    { EmailText(p, n, sp, e, sf) :
        p \in EmailPrefixes, n \in { <<"J","a","n","e"," ","D","o","e">>, <<"A","n","n"," ","L","e","e","-","F","o","x">> },
        sp \in { <<":"," ">>, <<" ">> },
        e \in { <<"j","d","@","c","i","t","y",".","o","r","g">>, <<"m","a","y","o","r","@","c","i","t","y",".","g","o","v">> }, sf \in EmailSuffixes }

\* s[a:b], a possibly negative before max(0, .) and b possibly past the end
Slice(s, a, b) ==
    SubSeq(s, (IF a < 0 THEN 0 ELSE a) + 1, IF b > Len(s) THEN Len(s) ELSE b)

\* the window of lines 176-182 used here as well
Window_Hundred(m) == Lower(Slice(m.text, m.start - 100, m.end + 100))

\* line 202: text[max(0, match.start()-50):match.end()+50].lower()
Window(m) == Lower(Slice(m.text, m.start - 50, m.end + 50))

\* lines 200-204 from keyword i on: the first keyword found in the window
RECURSIVE title_match(_, _)
title_match(window, i) ==
    IF i > Len(title_keywords) THEN None
    ELSE IF Contains(Lower(title_keywords[i]), window) THEN title_keywords[i]
    ELSE title_match(window, i + 1)

\* lines 197-213 for one match
EmailPass(m) ==
    IF title_match(Window(m), 1) # None
    THEN << RawMatch(m.name, title_match(Window(m), 1), m.email, None, 600) >>
    ELSE << >>

EP_Call ==
    /\ pc = "email_pattern"
    /\ calls' = Append(calls,
                       [fn |-> pc, arg |-> arg, value |-> EmailPass(arg)])
    /\ pc' = "done"
    /\ UNCHANGED << municipality, state, muni_website, search_vars >>
    /\ UNCHANGED find_vars
    /\ UNCHANGED dedup_vars
    /\ UNCHANGED << scrape_links, page_idx, scrape_results, retry_count,
                    verify_ssl, attempts, arg >>
    /\ UNCHANGED run_vars

InitEmailPass ==
    /\ municipality = << >>
    /\ state = << >>
    /\ pc = "email_pattern"
    /\ caller = "email_pattern"
    /\ website = None
    /\ FindIdle
    /\ SearchIdle
    /\ DedupIdle
    /\ scrape_links = << >>
    /\ page_idx = 1
    /\ scrape_results = << >>
    /\ retry_count = 0
    /\ verify_ssl = TRUE
    /\ attempts = << >>
    /\ arg \in EmailTexts
    /\ calls = << >>
    /\ runs = << >>
    /\ rng_calls = 0

SpecEmailPass == InitEmailPass /\ [][EP_Call]_vars

\* ------------------------------------- several search_for_officials at once
\* what the requests of one call give: the Google request, the two calls of
\* find_municipal_website (lines 37 and 243), the request of the site, those
\* of the contact pages, and the LinkedIn requests
PAGE_STAFF == [kind |-> "ok", anchors |-> << A_NEWS, A_STAFF >>,
               text |-> TEXT_MAYOR]
PAGE_COUNCIL == [kind |-> "ok", anchors |-> << A_DOWN, A_COUNCIL >>,
                 text |-> TEXT_STAFF]

Scripts ==
    { [google |-> [kind |-> "error", snippets |-> << >>],
       site |-> None, scrape |-> PAGE_STAFF,
       direct_site |-> None, pages |-> << >>, linkedin |-> "error"],
      [google |-> [kind |-> "ok", snippets |-> << TEXT_MAYOR >>],
       site |-> None, scrape |-> PAGE_STAFF,
       direct_site |-> None, pages |-> << >>, linkedin |-> "found"],
      [google |-> [kind |-> "non200", snippets |-> << >>],
       site |-> <<"h","t","t","p","s",":","/","/","w","w","w",".","a","m","e","s",".","g","o","v">>, scrape |-> PAGE_STAFF,
       direct_site |-> <<"h","t","t","p","s",":","/","/","w","w","w",".","a","m","e","s",".","g","o","v">>,
       pages |-> << PAGE_COUNCIL >>, linkedin |-> "error"] }

\* the (municipality_name, state) arguments of two calls made at once
PairArgs ==
    { << << <<"A","m","e","s">>, <<"I","A">> >>, << <<"D","e","s"," ","M","o","i","n","e","s">>, <<"I","A">> >> >>,
      << << <<"D","e","s"," ","M","o","i","n","e","s">>, <<"I","A">> >>, << <<"C","e","d","a","r"," ","R","a","p","i","d","s">>, <<"I","A">> >> >>,
      << << <<"C","e","d","a","r"," ","R","a","p","i","d","s">>, <<"I","A">> >>, << <<"A","m","e","s">>, <<"I","A">> >> >> }

\* line 26: the local variables of a call that has just started
NewRun(a, sc) ==
    [ municipality |-> a[1], state |-> a[2], script |-> sc,
      pc |-> "search_google", results |-> << >>, muni_website |-> None,
      raised |-> FALSE, ret |-> << >> ]

\* one list shared by every call
Pool_ModuleLevel(r) == runs[1].results \o runs[2].results

\* line 26: results is a list of the call
Pool(r) == runs[r].results

\* the links a call of scrape_municipal_website visits (one delay each)
Visited(website_url, out) ==
    IF out.kind = "ok"
    THEN Len(First3(contact_links(website_url, out.anchors)))
    ELSE 0

\* lines 253-261 from contact page i on
RECURSIVE ContactScrapes(_, _, _)
ContactScrapes(website_url, pages, i) ==
    IF i > Len(pages) THEN << >>
    ELSE scrape_municipal_website(ContactUrl(website_url, i), pages[i])
             \o ContactScrapes(website_url, pages, i + 1)

RECURSIVE ContactVisits(_, _, _)
ContactVisits(website_url, pages, i) ==
    IF i > Len(pages) THEN 0
    ELSE Visited(ContactUrl(website_url, i), pages[i])
             + ContactVisits(website_url, pages, i + 1)

\* search_direct_for_officials, given what its requests give
DirectResults(municipality_name, st, sc) ==
    filter_officials(WithSampleData(
        IF Truthy(sc.direct_site)
        THEN ContactScrapes(sc.direct_site, sc.pages, 1)
        ELSE << >>, municipality_name, st))

\* line 448 raises for some key of the pool
PoolRaises(list) ==
    \E i \in 1..Len(GroupByKey(list, << >>)) :
        MergeRaises(GroupByKey(list, << >>)[i].matches)

\* what search_linkedin_profile returns for each key of the pool
PoolLookups(list, municipality_name, st, outcome) ==
    [ i \in 1..Len(GroupByKey(list, << >>)) |->
        IF NeedsLookup(GroupByKey(list, << >>)[i].matches,
                       municipality_name, st)
        THEN search_linkedin_profile(
                 MergeMatches(GroupByKey(list, << >>)[i].matches).name,
                 MergeMatches(GroupByKey(list, << >>)[i].matches).title,
                 municipality_name, st, outcome)
        ELSE NoCall ]

\* the variables no call of the pair touches
PairFrame ==
    /\ UNCHANGED << municipality, state, pc, caller, website, muni_website >>
    /\ UNCHANGED find_vars
    /\ UNCHANGED search_vars
    /\ UNCHANGED dedup_vars
    /\ UNCHANGED << scrape_links, page_idx, scrape_results, retry_count,
                    verify_ssl, attempts, arg, calls >>

\* lines 29-34 of call r
R_Google(r) ==
    /\ runs[r].pc = "search_google"
    /\ runs' = [runs EXCEPT ![r] = [@ EXCEPT
           !.results = Pool(r) \o search_google(runs[r].script.google),
           !.pc = "find_municipal_website"]]
    /\ rng_calls' = rng_calls + 1
    /\ PairFrame

\* lines 37-38 of call r
R_Find(r) ==
    /\ runs[r].pc = "find_municipal_website"
    /\ runs' = [runs EXCEPT ![r] = [@ EXCEPT
           !.muni_website = runs[r].script.site,
           !.pc = IF Truthy(runs[r].script.site)
                  THEN "scrape_municipal_website"
                  ELSE "search_direct_for_officials"]]
    /\ UNCHANGED rng_calls
    /\ PairFrame

\* lines 39-41 of call r
R_Scrape(r) ==
    /\ runs[r].pc = "scrape_municipal_website"
    /\ runs' = [runs EXCEPT ![r] = [@ EXCEPT
           !.results = Pool(r) \o scrape_municipal_website(
                           runs[r].muni_website, runs[r].script.scrape),
           !.pc = "search_direct_for_officials"]]
    /\ rng_calls' = rng_calls
           + Visited(runs[r].muni_website, runs[r].script.scrape)
    /\ PairFrame

\* lines 44-46 of call r
R_Direct(r) ==
    /\ runs[r].pc = "search_direct_for_officials"
    /\ runs' = [runs EXCEPT ![r] = [@ EXCEPT
           !.results = Pool(r) \o DirectResults(runs[r].municipality,
                                     runs[r].state, runs[r].script),
           !.pc = "score_and_deduplicate"]]
    /\ rng_calls' = rng_calls
           + (IF Truthy(runs[r].script.direct_site)
              THEN ContactVisits(runs[r].script.direct_site,
                                 runs[r].script.pages, 1)
              ELSE 0)
    /\ PairFrame

\* lines 49-51 of call r
R_Dedup(r) ==
    /\ runs[r].pc = "score_and_deduplicate"
    /\ runs' = [runs EXCEPT ![r] = [@ EXCEPT
           !.raised = PoolRaises(Pool(r)),
           !.ret = IF PoolRaises(Pool(r)) THEN << >>
                   ELSE score_and_deduplicate(Pool(r),
                            PoolLookups(Pool(r), runs[r].municipality,
                                runs[r].state, runs[r].script.linkedin)),
           !.pc = "done"]]
    /\ UNCHANGED rng_calls
    /\ PairFrame

\* call r is given up where it stands
R_Abandon(r) ==
    /\ runs[r].pc \notin { "done", "abandoned" }
    /\ runs' = [runs EXCEPT ![r] = [@ EXCEPT !.pc = "abandoned"]]
    /\ UNCHANGED rng_calls
    /\ PairFrame

NextPair ==
    \/ \E r \in DOMAIN runs : R_Google(r)
    \/ \E r \in DOMAIN runs : R_Find(r)
    \/ \E r \in DOMAIN runs : R_Scrape(r)
    \/ \E r \in DOMAIN runs : R_Direct(r)
    \/ \E r \in DOMAIN runs : R_Dedup(r)
    \/ \E r \in DOMAIN runs : R_Abandon(r)

\* two calls for distinct municipalities
InitPair ==
    /\ municipality = << >>
    /\ state = << >>
    /\ pc = "search_for_officials"
    /\ caller = "pair"
    /\ website = None
    /\ FindIdle
    /\ SearchIdle
    /\ DedupIdle
    /\ scrape_links = << >>
    /\ page_idx = 1
    /\ scrape_results = << >>
    /\ retry_count = 0
    /\ verify_ssl = TRUE
    /\ attempts = << >>
    /\ arg = None
    /\ calls = << >>
    /\ \E a \in PairArgs, sc1 \in Scripts, sc2 \in Scripts :
          runs = << NewRun(a[1], sc1), NewRun(a[2], sc2) >>
    /\ rng_calls = 0

SpecPair == InitPair /\ [][NextPair]_vars

\* ===================================================================== claims
Done == pc = "done" /\ ~raised

LoweredKey(r) == << Lower(r.name), Lower(r.title) >>

PassesValidation(r) ==
    validate_official_name(r.name) /\ validate_official_title(r.title)

\* positions of the valid candidates of the input that carry key k
Members(k) ==
    { i \in 1..Len(officials_list) :
        PassesValidation(officials_list[i]) /\ LoweredKey(officials_list[i]) = k }

ValidKeys ==
    { LoweredKey(officials_list[i]) :
        i \in { j \in 1..Len(officials_list) : PassesValidation(officials_list[j]) } }

Min(S) == CHOOSE x \in S : \A y \in S : x <= y

\* the members of key k, in input order
RECURSIVE Ascending(_)
Ascending(S) ==
    IF S = {} THEN << >> ELSE << Min(S) >> \o Ascending(S \ { Min(S) })

MemberList(k) ==
    LET idx == Ascending(Members(k))
    IN  [ i \in 1..Len(idx) |-> officials_list[idx[i]] ]

\* C1: score_and_deduplicate returns at most one record per merge key
\* (lowercased name, lowercased title), and every key carried by a candidate
\* that passes validation appears exactly once in the output.
C1_OneRecordPerKey ==
    Done =>
        /\ \A i, j \in 1..Len(ret) :
              i # j => LoweredKey(ret[i]) # LoweredKey(ret[j])
        /\ \A k \in ValidKeys :
              Cardinality({ i \in 1..Len(ret) : LoweredKey(ret[i]) = k }) = 1
        /\ \A i \in 1..Len(ret) : LoweredKey(ret[i]) \in ValidKeys

C1_Witness ==
    /\ Done
    /\ Len(ret) >= 2
    /\ \E k \in ValidKeys : \E i, j \in Members(k) :
          officials_list[i].name # officials_list[j].name

\* value of optional field f of the first member that supplies one
Field(r, f) ==
    CASE f = "email" -> r.email
      [] f = "phone" -> r.phone
      [] f = "linkedin_url" -> Get(r.linkedin_url)

OptionalFields == { "email", "phone", "linkedin_url" }

Suppliers(list, f) == { i \in 1..Len(list) : Truthy(Field(list[i], f)) }

FirstSupplied(list, f) ==
    IF Suppliers(list, f) = {} THEN None
    ELSE Field(list[Min(Suppliers(list, f))], f)

\* C2: within one merge group the merged record takes name, title and source
\* from the first-encountered candidate, and each of email, phone and
\* linkedin_url is the value of the first member, in input order, whose value
\* for the field is non-empty; the returned record keeps that email, that
\* linkedin_url and that phone (in the form the scorer leaves it).
C2_FirstNonEmptyWins ==
    Done =>
        \A k \in ValidKeys :
            LET group == MemberList(k)
                best_match == MergeMatches(group)
                email == FirstSupplied(group, "email")
                phone == FirstSupplied(group, "phone")
                linkedin_url == FirstSupplied(group, "linkedin_url")
            IN  /\ best_match.name = group[1].name
                /\ best_match.title = group[1].title
                /\ best_match.source = group[1].source
                /\ best_match.email = email
                /\ best_match.phone = phone
                /\ best_match.linkedin_url = linkedin_url
                /\ \E i \in 1..Len(ret) :
                      /\ ret[i].name = group[1].name
                      /\ ret[i].title = group[1].title
                      /\ ret[i].source = group[1].source
                      /\ ret[i].email = email
                      /\ Truthy(linkedin_url) => ret[i].linkedin_url = linkedin_url
                      /\ ret[i].phone \in { phone, validate_phone(phone) }

C2_Witness ==
    /\ Done
    /\ \E k \in ValidKeys :
          LET group == MemberList(k)
          IN  /\ Len(group) >= 2
              /\ Truthy(group[1].email) /\ ~Truthy(group[1].phone)
              /\ ~Truthy(group[2].email) /\ Truthy(group[2].phone)
              /\ \E i \in 1..Len(ret) :
                    /\ LoweredKey(ret[i]) = k
                    /\ ret[i].email = group[1].email
                    /\ Truthy(ret[i].phone)

Orderings(n) ==
    { p \in [1..n -> 1..n] : \A i, j \in 1..n : i # j => p[i] # p[j] }

Reorder(list, p) == [ i \in 1..Len(list) |-> list[p[i]] ]

\* C3: when each optional field is supplied by at most one member of a merge
\* group, the merged email, phone and linkedin_url are the same for every
\* ordering of the members; when several members supply a field, the one
\* encountered first in input order gives the result.
C3_MergeOrder ==
    Done =>
        \A k \in ValidKeys :
            LET group == MemberList(k)
                best_match == MergeMatches(group)
            IN  /\ (\A f \in OptionalFields :
                        Cardinality(Suppliers(group, f)) <= 1)
                      => \A p \in Orderings(Len(group)) :
                            LET other == MergeMatches(Reorder(group, p))
                            IN  /\ other.email = best_match.email
                                /\ other.phone = best_match.phone
                                /\ other.linkedin_url = best_match.linkedin_url
                /\ \A f \in OptionalFields :
                      Cardinality(Suppliers(group, f)) >= 2
                          => Field(best_match, f)
                                = Field(group[Min(Suppliers(group, f))], f)

C3_Witness ==
    /\ Done
    /\ \E k \in ValidKeys :
          LET group == MemberList(k)
          IN  /\ Len(group) >= 2
              /\ \A f \in OptionalFields : Cardinality(Suppliers(group, f)) <= 1
              /\ Suppliers(group, "email") # Suppliers(group, "phone")
              /\ Suppliers(group, "email") # {}
              /\ Suppliers(group, "phone") # {}


\* position in the input of the first valid candidate carrying r's key
FirstSeen(r) == Min(Members(LoweredKey(r)))

\* the input with every upstream confidence_score replaced by c
WithConfidence(list, c) ==
    [ i \in 1..Len(list) |-> [list[i] EXCEPT !.confidence_score = c] ]

ConfidenceValues == { 0, 1000 }

\* C4: every returned record's confidence_score is calculate_confidence_score
\* of that record's final name, title, email, phone and linkedin_url, and the
\* output does not depend on the confidence_score values the candidates
\* carried.
C4_ConfidenceRecomputed ==
    Done =>
        /\ \A i \in 1..Len(ret) :
              ret[i].confidence_score = calculate_confidence_score(ret[i]).score
        /\ \A c \in ConfidenceValues :
              ret = score_and_deduplicate(WithConfidence(officials_list, c),
                                          lookups)

C4_Witness ==
    /\ Done
    /\ \E i \in 1..Len(ret) :
          /\ officials_list[FirstSeen(ret[i])].confidence_score = 1000
          /\ ret[i].confidence_score < 1000
    /\ \E i \in 1..Len(ret) :
          /\ officials_list[FirstSeen(ret[i])].confidence_score = 500
          /\ ret[i].confidence_score > 500

\* C6: the returned list is ordered by non-increasing confidence, and records
\* of equal confidence appear in the order in which their merge keys were
\* first encountered in the input.
C6_RankedStable ==
    Done =>
        \A i, j \in 1..Len(ret) :
            i < j =>
                /\ ret[i].confidence_score >= ret[j].confidence_score
                /\ ret[i].confidence_score = ret[j].confidence_score
                      => FirstSeen(ret[i]) < FirstSeen(ret[j])

C6_Witness ==
    /\ Done
    /\ Len(ret) >= 3
    /\ \E i, j \in 1..Len(ret) :
          /\ i < j
          /\ ret[i].confidence_score = ret[j].confidence_score
    /\ \E i, j \in 1..Len(ret) :
          /\ i < j
          /\ ret[i].confidence_score > ret[j].confidence_score
          /\ FirstSeen(ret[i]) > FirstSeen(ret[j])

\* the candidates of the input that pass name and title validation
RECURSIVE OnlyValid(_)
OnlyValid(list) ==
    IF list = << >> THEN << >>
    ELSE IF PassesValidation(Head(list))
    THEN << Head(list) >> \o OnlyValid(Tail(list))
    ELSE OnlyValid(Tail(list))

\* C7: no record whose name fails validate_official_name or whose title fails
\* validate_official_title is merged into or returned in the output, whatever
\* valid email, phone or title it carries: every returned record passes both
\* validators, and the output is the one obtained from the input with the
\* failing candidates removed.
C7_InvalidNeverMerged ==
    /\ \A i \in 1..Len(final_results) : PassesValidation(final_results[i])
    /\ \A i \in 1..Len(officials_by_key) :
          \A j \in 1..Len(officials_by_key[i].matches) :
              PassesValidation(officials_by_key[i].matches[j])
    /\ Done =>
          /\ \A i \in 1..Len(ret) : PassesValidation(ret[i])
          /\ \/ OnlyValid(officials_list) = << >> /\ ret = << >>
             \/ ret = score_and_deduplicate(OnlyValid(officials_list), lookups)

C7_Witness ==
    /\ Done
    /\ ret # << >>
    /\ \E i, j \in 1..Len(officials_list) :
          /\ officials_list[i].name = NAME_VENDOR
          /\ validate_email(officials_list[i].email)
          /\ validate_official_title(officials_list[i].title)
          /\ PassesValidation(officials_list[j])
          /\ ~Truthy(officials_list[j].email)
    /\ \E i \in 1..Len(officials_list) :
          ~validate_official_title(officials_list[i].title)


\* ---- C10
\* what the claim calls a confirmed candidate: a 200 whose body the
\* classifier accepts
Confirmed(resp) ==
    resp.kind = "ok" /\ is_likely_municipal_site(resp.body, municipality, state)

Returned == pc # "find_municipal_website"

\* C10: find_municipal_website requests the generated candidates strictly in
\* list order, one at a time; a candidate that answers 200 and satisfies the
\* classifier is returned at once, so every candidate before it was requested
\* and did not qualify and none after it is requested; a candidate that is
\* unreachable or not municipal leaves the call at the next candidate, and
\* None is returned only after every candidate was requested.
C10_ProbesInOrderShortCircuit ==
    LET patterns == generate_url_patterns(municipality, state)
        n == Len(probes)
    IN  caller = "find" =>
        /\ \A i \in 1..n :
              probes[i].phase = "patterns" =>
                  /\ i <= Len(patterns)
                  /\ probes[i].url = patterns[i]
                  /\ probes[i].qualified =>
                         i = n /\ Returned /\ website = patterns[i]
        /\ (n > 0 /\ probes[n].phase = "patterns") =>
               (probes[n].qualified <=> Confirmed(response))
        /\ (~Returned /\ find_phase = "patterns") => find_idx = n + 1
        /\ (Returned /\ website = None) => n >= Len(patterns)

\* a confirmed candidate in the middle of the list: earlier candidates were
\* requested, later ones exist and were not
C10_Witness ==
    /\ caller = "find"
    /\ Returned
    /\ Len(probes) >= 3
    /\ probes[Len(probes)].phase = "patterns"
    /\ Confirmed(response)
    /\ website = probes[Len(probes)].url
    /\ Len(probes) < Len(generate_url_patterns(municipality, state))

\* ---- C5
\* the call of search_for_officials has returned
SearchDone == pc = "done" /\ caller = "direct"

\* C5: every record in the list search_for_officials returns has a
\* confidence of at least the minimum-confidence threshold (0.6), whichever
\* source its candidates came from.
C5_ReturnedAboveThreshold ==
    SearchDone =>
        \A i \in 1..Len(ret) : ret[i].confidence_score >= min_confidence

\* a returned list holding a record from the search provider and one from a
\* scraped page, one of them with a valid name and title and nothing else
C5_Witness ==
    /\ SearchDone
    /\ \E i \in 1..Len(ret) : ret[i].source = SOURCE_GOOGLE
    /\ \E i \in 1..Len(ret) :
          /\ ret[i].source \notin { SOURCE_GOOGLE, SOURCE_SAMPLE }
          /\ ~Truthy(Get(ret[i].email))
          /\ ~Truthy(Get(ret[i].phone))
          /\ ~Truthy(Get(ret[i].linkedin_url))

\* ---- C8
\* C8: when discovery confirms no site (both calls of find_municipal_website
\* return None) and no source supplies a candidate, search_for_officials
\* returns an empty list, for every municipality name and region code.
C8_NoSiteNoCandidatesEmpty ==
    ( /\ SearchDone
      /\ muni_website = None
      /\ website = None
      /\ google_results = << >> )
        => ret = << >>

\* ---- C9
RECURSIVE NoneValid(_)
NoneValid(list) ==
    list = << >>
        \/ (~PassesValidation(Head(list)) /\ NoneValid(Tail(list)))

C11_OnlyConfirmedReturned ==
    (caller = "find" /\ Returned /\ website # None) =>
        /\ Confirmed(response)
        /\ \E i \in 1..Len(generate_url_patterns(municipality, state)) :
              generate_url_patterns(municipality, state)[i] = website

\* ---- C12
\* the three inputs of the decision, read off a page body
NamePresent(body) == name_found(Lower(body), Lower(municipality))

RegionPresent(body) == Contains(Lower(state), Lower(body))

IndicatorsPresent(body) ==
    indicator_count(Lower(body),
                    municipal_indicators \o city_specific(Lower(municipality)))

\* the last request was a candidate that answered 200
ClassifiedLast ==
    /\ caller = "find"
    /\ probes # << >>
    /\ probes[Len(probes)].phase = "patterns"
    /\ response.kind = "ok"

\* C12: is_likely_municipal_site is true exactly when (name present and
\* region code present) or (name present and at least one indicator
\* keyword present) or (at least two indicator keywords present) in the
\* lowercased page.
C12_ClassifierDecision ==
    ClassifiedLast =>
        (probes[Len(probes)].qualified <=>
            \/ NamePresent(response.body) /\ RegionPresent(response.body)
            \/ NamePresent(response.body)
                   /\ IndicatorsPresent(response.body) >= 1
            \/ IndicatorsPresent(response.body) >= 2)

\* accepted on the name and the region code alone, no indicator on the page
C12_Witness ==
    /\ ClassifiedLast
    /\ probes[Len(probes)].qualified
    /\ NamePresent(response.body)
    /\ RegionPresent(response.body)
    /\ IndicatorsPresent(response.body) = 0

\* ---- C13
\* the candidate is in the pool handed to score_and_deduplicate
InPool(official) ==
    \E j \in 1..Len(officials_list) :
        /\ officials_list[j].name = official.name
        /\ officials_list[j].title = official.title

\* C13: for each contact page find_contact_pages returned whose fetch gave
\* a 200 with a text, the valid candidates the extractor finds in the text
\* of that page itself are in the pool.
C13_ContactPageTextExtracted ==
    SearchDone =>
        \A i \in 1..Len(contact_texts) :
            \A k \in 1..Len(extract_officials_from_text(contact_texts[i])) :
                InPool(extract_officials_from_text(contact_texts[i])[k])

\* ---- C14
\* the URLs of the probes that answered with a 200, in probe order
RECURSIVE QualifiedUrls(_)
QualifiedUrls(log) ==
    IF log = << >> THEN << >>
    ELSE IF log[1].qualified
         THEN << log[1].url >> \o QualifiedUrls(Tail(log))
         ELSE QualifiedUrls(Tail(log))

ContactCall == caller = "contact"

\* C14: find_contact_pages probes the 21 fixed paths under the base URL in
\* their order, each exactly once, and returns exactly the URLs whose probe
\* answered with status 200, in probe order and without duplicates; the body
\* of the page plays no part.
C14_ContactPagesAre200Probes ==
    ContactCall =>
        /\ \A i \in 1..Len(probes) :
              /\ i <= Len(contact_paths)
              /\ probes[i].url = RStripSlash(website) \o contact_paths[i]
        /\ contact_pages = QualifiedUrls(probes)
        /\ \A i, j \in 1..Len(contact_pages) :
              contact_pages[i] = contact_pages[j] => i = j
        /\ probes # << >> =>
              (probes[Len(probes)].qualified <=> response.kind = "ok")
        /\ pc = "done" => Len(probes) = Len(contact_paths)

C14_Witness ==
    /\ ContactCall
    /\ pc = "done"
    /\ Len(contact_pages) = 2
    /\ probes[2].qualified
    /\ ~probes[3].qualified
    /\ response.kind = "ok"
    /\ ~is_likely_municipal_site(response.body, municipality, state)

\* ---- C15
IsPrefix(a, b) == Len(a) <= Len(b) /\ SubSeq(b, 1, Len(a)) = a

ScrapeCall == caller = "scrape"

\* every link before page_idx was processed, whatever the pages before it
\* gave, and the results hold what the good ones among them yielded
PagesIsolated ==
    ScrapeCall =>
        /\ page_idx <= Len(scrape_links) + 1
        /\ scrape_results
               = ScrapeLinks(SubSeq(scrape_links, 1, page_idx - 1))
        /\ pc = "done" => page_idx = Len(scrape_links) + 1 \/ scrape_links = << >>

\* a step of the run loses no candidate already collected
KeepsCandidates ==
    /\ IsPrefix(scrape_results, scrape_results')
    /\ caller \in { "search", "direct" } => IsPrefix(officials_list, officials_list')
    /\ pc = "visit_contact_pages" =>
          /\ IsPrefix(direct_results, direct_results')
          /\ link_idx' = link_idx + 1 \/ pc' = "sample_data"

\* the run ends by returning a list
ReturnsList ==
    (pc = "done" /\ caller \in { "direct", "scrape" }) =>
        /\ ~raised
        /\ ret \in Seq({ ret[i] : i \in 1..Len(ret) })

\* C15: whatever each page gives (an exception in the fetch or the
\* extraction, a status other than 200, an empty text), the pages after it
\* are still processed, the candidates already collected are kept, and
\* search_for_officials returns a list, empty at worst, and does not raise.
C15_PageFailureIsolated ==
    [](PagesIsolated /\ ReturnsList) /\ [][KeepsCandidates]_vars

C15_Witness ==
    /\ ScrapeCall
    /\ pc = "done"
    /\ Len(scrape_links) = 3
    /\ scrape_links[1].kind = "ok"
    /\ scrape_links[2].kind = "error"
    /\ scrape_links[3].kind = "ok"
    /\ \E i, j \in 1..Len(scrape_results) :
          /\ scrape_results[i].source = scrape_links[1].href
          /\ scrape_results[j].source = scrape_links[3].href

\* ---- C16
EmptyArgument == municipality = << >> \/ state = << >>

\* search_for_officials has issued no request yet: it is at its first line
NotStarted == pc = "search_for_officials"

\* C16: called with an empty municipality name or an empty state code,
\* search_for_officials ends with an invalid-argument error and has issued
\* no request (search, discovery probe or page fetch) before it.
C16_EmptyArgumentRejected ==
    (EmptyArgument /\ ~NotStarted) =>
        /\ pc = "done"
        /\ raised
        /\ google_results = << >>
        /\ muni_website = None
        /\ contact_pages = << >>

\* ---- C17
RequestCall == caller = "request"

\* attempt i is the one made without verification right after an SSL error
IsFallback(i) ==
    /\ i > 1
    /\ attempts[i - 1].kind = "ssl_error"
    /\ attempts[i - 1].verify_ssl

Failed(kind) == kind \in { "ssl_error", "error" }

\* C17: a make_request call started with retry_count 0 issues at most
\* MAX_RETRIES + 1 = 4 attempts plus at most one attempt for the SSL
\* fallback (5 in all); the fallback attempt keeps the retry count, no
\* later attempt verifies again, and when the last attempt fails the call
\* returns None and raises nothing.
C17_BoundedAttempts ==
    RequestCall =>
        /\ MAX_RETRIES + 1 = 4
        /\ Len(attempts) <= MAX_RETRIES + 2
        /\ Cardinality({ i \in 1..Len(attempts) : ~IsFallback(i) })
               <= MAX_RETRIES + 1
        /\ Cardinality({ i \in 1..Len(attempts) : IsFallback(i) }) <= 1
        /\ \A i \in 1..Len(attempts) :
              IsFallback(i) =>
                  /\ attempts[i].retry_count = attempts[i - 1].retry_count
                  /\ ~attempts[i].verify_ssl
        /\ \A i, j \in 1..Len(attempts) :
              (i < j /\ ~attempts[i].verify_ssl) => ~attempts[j].verify_ssl
        /\ pc = "done" <=>
              /\ attempts # << >>
              /\ \/ ~Failed(attempts[Len(attempts)].kind)
                 \/ /\ ~IsFallback(Len(attempts) + 1)
                    /\ attempts[Len(attempts)].retry_count = MAX_RETRIES
        /\ (pc = "done" /\ Failed(attempts[Len(attempts)].kind)) =>
              (response = NoResponse /\ ~raised)

C17_Witness ==
    /\ RequestCall
    /\ pc = "done"
    /\ Len(attempts) = 5
    /\ IsFallback(4)
    /\ response = NoResponse
    /\ ~raised

\* ---- C18
PhoneCall == caller = "validate_phone" /\ calls # << >>

\* the digit characters of a phone string, in order
DigitsOf(phone) ==
    IF phone = None THEN << >>
    ELSE SelectSeq(phone, LAMBDA c : c \in { "0", "1", "2", "3", "4", "5",
                                            "6", "7", "8", "9" })

\* (AAA) BBB-CCCC built from the last ten of the digits d
Canonical(d) ==
    LET n == Len(d)
    IN  << "(", d[n - 9], d[n - 8], d[n - 7], ")", " ", d[n - 6], d[n - 5],
           d[n - 4], "-", d[n - 3], d[n - 2], d[n - 1], d[n] >>

\* C18: validate_phone returns (AAA) BBB-CCCC built from the last ten
\* digits when the input holds exactly ten digits, or eleven of which the
\* first is 1, and None for every other input.
C18_PhoneCanonicalForm ==
    PhoneCall =>
        LET d == DigitsOf(calls[1].arg)
        IN  IF Len(d) = 10 \/ (Len(d) = 11 /\ d[1] = "1")
            THEN calls[1].value = Canonical(d)
            ELSE calls[1].value = None

C18_Witness ==
    /\ PhoneCall
    /\ Len(DigitsOf(calls[1].arg)) = 11
    /\ Len(calls[1].arg) > 11
    /\ calls[1].value = <<"(","5","1","5",")"," ","5","5","5","-","1","2","3","4">>

\* ---- C19
ScoreCall == caller = "calculate_confidence_score"

NameOk(o) == validate_official_name(o.name)
TitleOk(o) == validate_official_title(o.title)
EmailOk(o) == validate_email(Get(o.email))
PhoneOk(o) == Truthy(Get(o.phone)) /\ validate_phone(Get(o.phone)) # None
LinkedinOk(o) == Truthy(Get(o.linkedin_url))

\* the weights of the satisfied signals, in thousandths
WeightSum(o) ==
    (IF NameOk(o) THEN 400 ELSE 0) + (IF TitleOk(o) THEN 200 ELSE 0)
        + (IF EmailOk(o) THEN 200 ELSE 0) + (IF PhoneOk(o) THEN 100 ELSE 0)
        + (IF LinkedinOk(o) THEN 100 ELSE 0)

\* C19: calculate_confidence_score returns the sum of the weights of the
\* satisfied signals (name 0.4, title 0.2, email 0.2, phone 0.1, linkedin
\* 0.1) over the total 1.0: a value in [0, 1] that is 1.0 exactly when all
\* five signals pass and 0.6 for a record with only a valid name and a
\* valid title.
C19_ScoreIsWeightSum ==
    ScoreCall =>
        \A i \in 1..Len(calls) :
            /\ calls[i].value = WeightSum(calls[i].arg)
            /\ calls[i].value >= 0 /\ calls[i].value <= 1000
            /\ calls[i].value = 1000 <=>
                  /\ NameOk(calls[i].arg) /\ TitleOk(calls[i].arg)
                  /\ EmailOk(calls[i].arg) /\ PhoneOk(calls[i].arg)
                  /\ LinkedinOk(calls[i].arg)
            /\ ( /\ NameOk(calls[i].arg) /\ TitleOk(calls[i].arg)
                 /\ ~EmailOk(calls[i].arg) /\ ~PhoneOk(calls[i].arg)
                 /\ ~LinkedinOk(calls[i].arg) ) => calls[i].value = 600

\* ---- C20
\* C20: applied a second time to the record as the first application left
\* it (the phone rewritten), calculate_confidence_score returns the same
\* value and leaves the record as it was.
C20_ScoreIdempotent ==
    ScoreCall =>
        \A i \in 2..Len(calls) :
            /\ calls[i].arg = calls[i - 1].left
            /\ calls[i].value = calls[i - 1].value
            /\ calls[i].left = calls[i].arg

C20_Witness ==
    /\ ScoreCall
    /\ Len(calls) = 2
    /\ calls[1].arg.phone = PHONE_RAW
    /\ calls[1].left.phone # PHONE_RAW
    /\ calls[2].value = 1000

\* ---- C21
\* C21: calculate_confidence_score changes no field of the record but
\* phone, and phone only when validate_phone succeeds on it, to the
\* canonical form; a phone that does not format stays as it was.
C21_OnlyPhoneRewritten ==
    ScoreCall =>
        \A i \in 1..Len(calls) :
            /\ calls[i].left.name = calls[i].arg.name
            /\ calls[i].left.title = calls[i].arg.title
            /\ calls[i].left.email = calls[i].arg.email
            /\ calls[i].left.linkedin_url = calls[i].arg.linkedin_url
            /\ calls[i].left.source = calls[i].arg.source
            /\ calls[i].left.confidence_score = calls[i].arg.confidence_score
            /\ IF PhoneOk(calls[i].arg)
               THEN calls[i].left.phone
                        = Canonical(DigitsOf(calls[i].arg.phone))
               ELSE calls[i].left.phone = calls[i].arg.phone

C21_Witness ==
    /\ ScoreCall
    /\ Len(calls) = 1
    /\ calls[1].arg.phone = PHONE_DASHED
    /\ calls[1].left.phone = <<"(","5","1","5",")"," ","5","5","5","-","1","2","3","4">>
    /\ calls[1].arg.name = NAME_VENDOR

\* ---- C22
TitleCall ==
    caller = "validate" /\ calls # << >>
        /\ calls[1].fn = "validate_official_title"

\* the words that make a title official
OfficialWords ==
    { COMMON_OFFICIAL_TITLES[i] : i \in 1..Len(COMMON_OFFICIAL_TITLES) }
        \cup { <<"d","i","r","e","c","t","o","r">>, <<"c","h","i","e","f">> }

\* the denylist terms
DenyTerms ==
    { NON_OFFICIAL_INDICATORS[i] : i \in 1..Len(NON_OFFICIAL_INDICATORS) }

HasOfficialWord(title) == \E w \in OfficialWords : Contains(w, Lower(title))
HasDenyTerm(text) == \E w \in DenyTerms : Contains(Lower(w), Lower(text))

\* C22: validate_official_title rejects an empty title; accepts a title
\* holding an official-title word or "director"/"chief", in any case, even
\* next to a denylist term; otherwise rejects a title holding a denylist
\* term; otherwise accepts exactly the titles of at least 4 characters.
C22_TitleDecision ==
    TitleCall =>
        (calls[1].value <=>
            IF calls[1].arg = None \/ calls[1].arg = << >> THEN FALSE
            ELSE IF HasOfficialWord(calls[1].arg) THEN TRUE
            ELSE IF HasDenyTerm(calls[1].arg) THEN FALSE
            ELSE Len(calls[1].arg) >= 4)

C22_Witness ==
    /\ TitleCall
    /\ calls[1].arg # None
    /\ HasOfficialWord(calls[1].arg)
    /\ HasDenyTerm(calls[1].arg)
    /\ calls[1].value

\* ---- C23
NameCall ==
    caller = "validate" /\ calls # << >>
        /\ calls[1].fn = "validate_official_name"

\* at least two whitespace-separated tokens, each of at least 2 characters
TwoTokens(name) ==
    /\ Len(SplitWords(name)) >= 2
    /\ \A i \in 1..Len(SplitWords(name)) : Len(SplitWords(name)[i]) >= 2

HasEvent(name) == Contains(<<"e","v","e","n","t">>, Lower(name))

\* C23 as stated: validate_official_name rejects every string shorter than
\* 4 characters and every string holding a denylist term; a string of at
\* least 4 characters without a denylist term that does not match the
\* capitalized pattern is accepted exactly when it has at least 2 tokens of
\* at least 2 characters each.
C23_NameDecision ==
    NameCall =>
        /\ Len(calls[1].arg) < 4 => ~calls[1].value
        /\ HasDenyTerm(calls[1].arg) => ~calls[1].value
        /\ ( /\ Len(calls[1].arg) >= 4
             /\ ~HasDenyTerm(calls[1].arg)
             /\ ~name_pattern(calls[1].arg) ) =>
              (calls[1].value <=> TwoTokens(calls[1].arg))

\* C23 amended: as above, but a string that does not match the capitalized
\* pattern is accepted exactly when it does not hold "event" (in any case)
\* and has at least 2 tokens of at least 2 characters each.
C23_NameDecisionEvent ==
    NameCall =>
        /\ Len(calls[1].arg) < 4 => ~calls[1].value
        /\ HasDenyTerm(calls[1].arg) => ~calls[1].value
        /\ ( /\ Len(calls[1].arg) >= 4
             /\ ~HasDenyTerm(calls[1].arg)
             /\ ~name_pattern(calls[1].arg) ) =>
              (calls[1].value <=>
                  (~HasEvent(calls[1].arg) /\ TwoTokens(calls[1].arg)))

C23_Witness ==
    /\ NameCall
    /\ ~HasDenyTerm(calls[1].arg)
    /\ ~name_pattern(calls[1].arg)
    /\ HasEvent(calls[1].arg)
    /\ TwoTokens(calls[1].arg)
    /\ ~calls[1].value

\* ---- C24
ExtractCall == caller = "extract" /\ calls # << >>

\* the matches whose name and title both validate, in the order found
Validated(text) == SelectSeq(text, LAMBDA m : NameOk(m) /\ TitleOk(m))

\* C24: every candidate extract_officials_from_text returns has a valid name
\* and a valid title, an e-mail that is empty or valid and a phone that is
\* empty or canonical; the candidates returned are exactly the matches whose
\* name and title validate, and a malformed e-mail or phone is cleared.
C24_ExtractedAreValidated ==
    ExtractCall =>
        /\ Len(calls[1].value) = Len(Validated(calls[1].arg))
        /\ \A i \in 1..Len(calls[1].value) :
              /\ calls[1].value[i].name = Validated(calls[1].arg)[i].name
              /\ calls[1].value[i].title = Validated(calls[1].arg)[i].title
              /\ NameOk(calls[1].value[i]) /\ TitleOk(calls[1].value[i])
              /\ calls[1].value[i].email =
                    IF validate_email(Validated(calls[1].arg)[i].email)
                    THEN Validated(calls[1].arg)[i].email ELSE None
              /\ calls[1].value[i].phone =
                    IF PhoneOk(Validated(calls[1].arg)[i])
                    THEN Canonical(DigitsOf(Validated(calls[1].arg)[i].phone))
                    ELSE None

C24_Witness ==
    /\ ExtractCall
    /\ calls[1].arg = << RAW_SUPPORT, RAW_AL >>
    /\ Len(calls[1].value) = 1
    /\ calls[1].value[1].email = None


\* C25: two resolutions of distinct municipalities do not interfere: however
\* their stages interleave, and also when the other one is abandoned at some
\* stage, a resolution that returns gives what it gives when run alone on
\* the same fetch outcomes.
AloneSite(sc) ==
    IF Truthy(sc.site) THEN scrape_municipal_website(sc.site, sc.scrape)
    ELSE << >>

AlonePool(municipality_name, st, sc) ==
    search_google(sc.google) \o AloneSite(sc)
        \o DirectResults(municipality_name, st, sc)

AloneRet(municipality_name, st, sc) ==
    IF PoolRaises(AlonePool(municipality_name, st, sc)) THEN << >>
    ELSE score_and_deduplicate(AlonePool(municipality_name, st, sc),
             PoolLookups(AlonePool(municipality_name, st, sc),
                         municipality_name, st, sc.linkedin))

AsAlone(run) ==
    /\ run.raised
           = PoolRaises(AlonePool(run.municipality, run.state, run.script))
    /\ run.ret = AloneRet(run.municipality, run.state, run.script)

C25_ResolutionsIsolated ==
    caller = "pair" =>
        \A r \in DOMAIN runs : runs[r].pc = "done" => AsAlone(runs[r])

C25_Witness ==
    /\ caller = "pair"
    /\ \E r \in DOMAIN runs, q \in DOMAIN runs :
          /\ runs[r].pc = "done"
          /\ runs[r].ret # << >>
          /\ runs[q].pc = "abandoned"
          /\ runs[q].results # << >>


\* C26: the e-mail pass emits a candidate for a match exactly when some
\* title keyword occurs, whatever its case, in the text from 50 characters
\* before the match to 50 characters after it; the candidate has the matched
\* name and address, no phone, and as title the first such keyword of the
\* vocabulary.
EmailCall == caller = "email_pattern" /\ calls # << >>

\* kw occurs in text at offset p, whatever the case of the letters
KeywordAt(text, p, kw) ==
    /\ p + Len(kw) <= Len(text)
    /\ \A j \in 1..Len(kw) : LowerChar(text[p + j]) = LowerChar(kw[j])

NearKeywords(m) ==
    { i \in 1..Len(title_keywords) :
        \E p \in 0..Len(m.text) :
            /\ p >= m.start - 50
            /\ p + Len(title_keywords[i]) <= m.end + 50
            /\ KeywordAt(m.text, p, title_keywords[i]) }

FirstOf(S) == CHOOSE i \in S : \A j \in S : i <= j

C26_EmailPassTitle ==
    EmailCall =>
        \A c \in 1..Len(calls) :
            IF NearKeywords(calls[c].arg) = { }
            THEN calls[c].value = << >>
            ELSE /\ Len(calls[c].value) = 1
                 /\ calls[c].value[1].title
                        = title_keywords[FirstOf(NearKeywords(calls[c].arg))]
                 /\ calls[c].value[1].name = calls[c].arg.name
                 /\ calls[c].value[1].email = calls[c].arg.email
                 /\ calls[c].value[1].phone = None

\* a candidate whose title is not the only keyword near the match
C26_Witness ==
    /\ EmailCall
    /\ calls[1].value # << >>
    /\ Cardinality(NearKeywords(calls[1].arg)) > 1
    /\ calls[1].value[1].title = <<"M","a","y","o","r">>


\* C27: filter_officials returns, in input order, exactly the input records
\* whose recomputed score is at least min_confidence, a record scoring the
\* threshold included, and stores the recomputed score in every input
\* record, returned or not.
FilterCall == caller = "filter_officials" /\ calls # << >>

Rescore(r) == calculate_confidence_score(r).score

\* positions of the input whose record reaches the threshold
Passing(a) ==
    { i \in 1..Len(a.officials) :
        Rescore(a.officials[i]) >= a.min_confidence }

\* the i-th smallest element of S
RECURSIVE Nth(_, _)
Nth(S, i) ==
    IF i = 1 THEN FirstOf(S) ELSE Nth(S \ { FirstOf(S) }, i - 1)

C27_FilterKeepsAtThreshold ==
    FilterCall =>
        \A c \in 1..Len(calls) :
            /\ Len(calls[c].value) = Cardinality(Passing(calls[c].arg))
            /\ \A k \in 1..Len(calls[c].value) :
                   calls[c].value[k]
                       = calls[c].left[Nth(Passing(calls[c].arg), k)]
            /\ Len(calls[c].left) = Len(calls[c].arg.officials)
            /\ \A i \in 1..Len(calls[c].left) :
                   /\ calls[c].left[i].confidence_score
                          = Rescore(calls[c].arg.officials[i])
                   /\ calls[c].left[i].name = calls[c].arg.officials[i].name
                   /\ calls[c].left[i].title = calls[c].arg.officials[i].title
                   /\ calls[c].left[i].email = calls[c].arg.officials[i].email

\* a record scoring the threshold is kept and one below it is dropped, its
\* upstream score overwritten
C27_Witness ==
    /\ FilterCall
    /\ calls[1].arg.min_confidence = min_confidence
    /\ Len(calls[1].arg.officials) = 2
    /\ Len(calls[1].value) = 1
    /\ calls[1].value[1].confidence_score = min_confidence
    /\ calls[1].left[1].confidence_score < min_confidence
    /\ calls[1].arg.officials[1].confidence_score = 1000


\* C28: search_linkedin_profile is called for a merged record only when no
\* member of its group supplies a linkedin_url and the municipality name and
\* the state are both non-empty; a supplied linkedin_url is never replaced,
\* name, title, email and phone are those of the merge, and when the lookup
\* is not made or returns nothing the record is the merged one, scored.
\* the position in the input of the first member of each key, in key order
KeyOrder ==
    Ascending({ Min(Members(k)) : k \in ValidKeys })

\* the members of the key first met at position p of the input
KeyGroup(p) == MemberList(LoweredKey(officials_list[p]))

Called(i) == lookups[i] # NoCall

C28_LookupOnlyFillsLinkedin ==
    (caller = "none" /\ ~raised) =>
        /\ Len(lookups) = Len(final_results)
        /\ LET order == KeyOrder IN \A i \in 1..Len(lookups) :
              LET group == KeyGroup(order[i])
                  supplied == FirstSupplied(group, "linkedin_url")
                  phone == FirstSupplied(group, "phone")
                  rec == final_results[i]
              IN  /\ Called(i) =>
                         /\ ~Truthy(supplied)
                         /\ Truthy(municipality)
                         /\ Truthy(state)
                  /\ Truthy(supplied) => rec.linkedin_url = supplied
                  /\ rec.name = group[1].name
                  /\ rec.title = group[1].title
                  /\ rec.email = FirstSupplied(group, "email")
                  /\ rec.phone \in { phone, validate_phone(phone) }
                  /\ rec.source = group[1].source
                  /\ rec.linkedin_url =
                         (IF Called(i) /\ Truthy(lookups[i])
                          THEN lookups[i] ELSE supplied)
                  /\ rec.confidence_score = Rescore(rec)

\* one record enriched by the lookup, one for which the lookup returned
\* nothing, and one whose supplied linkedin_url kept the lookup away
C28_Witness ==
    /\ caller = "none"
    /\ pc = "done"
    /\ ~raised
    /\ \E i, j, k \in 1..Len(lookups) :
          /\ Called(i) /\ Truthy(lookups[i])
          /\ final_results[i].linkedin_url = lookups[i]
          /\ Called(j) /\ lookups[j] = None
          /\ final_results[j].linkedin_url = None
          /\ ~Called(k)
          /\ Truthy(final_results[k].linkedin_url)


\* C29: generate_url_patterns returns no URL twice, so that a call of
\* find_municipal_website requests no generated candidate more than once.
NoDuplicates(list) ==
    \A i, j \in 1..Len(list) : i # j => list[i] # list[j]

\* the URLs requested so far by the call
ProbedUrls == [ i \in 1..Len(probes) |-> probes[i].url ]

C29_NoUrlProbedTwice == caller = "find" => NoDuplicates(ProbedUrls)

====
